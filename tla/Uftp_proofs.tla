----------------------------- MODULE Uftp_proofs -----------------------------
(***************************************************************************)
(* Safety of Uftp for any number of clients, any files, any size of the    *)
(* buffer and any number of commands and faults.                           *)
(***************************************************************************)
EXTENDS Uftp, SequenceTheorems, TLAPS

(* ------------------------- what the proofs rest on -------------------- *)

\* What is sent to the server names a file where it has to, and a command is
\* never empty; what is sent to a client is something it can tell its user.
ToServers == {d \in Datagram : /\ d.t \in {"get", "put", "delete"} => d.file \in File
                               /\ d.t \in Commands => d.bytes # <<>>}
ToClients == {d \in Datagram : d.t \in Told}
Sent == [from : Client, d : ToServers]

\* A transfer has a file, which is there once writing has begun.
Transfers == Waiting \ {"reply"}
ClientOk(c) ==
  /\ cpc[c] \in Transfers => cfile[c] \in File
  /\ cpc[c] \in {"get_small", "get_large"} => dir[c][cfile[c]] # Absent
  /\ lost[c] <= faults
ServerOk ==
  /\ spc \in InPut => sfile \in File
  /\ spc \in {"put_small", "put_large"} => disk[sfile] # Absent
QueuesOk == sq \in Seq(Sent) /\ cq \in [Client -> Seq(ToClients)]
TypeInv == TypeOK /\ QueuesOk /\ ServerOk /\ \A c \in Client : ClientOk(c)

\* What follows what in the server's socket, as long as UDP behaves.
Last(q) == q[Len(q)].d
Follows(q, i) ==
  LET t == q[i].d.t IN
  /\ t \in Commands \cup {"do_not_create", "size", "block", "ack"}
  /\ t \in Commands \ {"put"} => i = Len(q)
  /\ t = "put" => i < Len(q) /\ q[i+1].d.t \in {"do_not_create", "size"}
  /\ t = "size" => i + 1 = Len(q) /\ q[i+1].d.t = "block"
  /\ t \in {"do_not_create", "ack"} /\ i < Len(q) => q[i+1].d.t \in Commands
  /\ t = "block" => i = Len(q)
Orderly(q) == \A i \in 1..Len(q) : Follows(q, i)

\* The server is where its next datagram is expected.
HeadOk ==
  /\ spc \in {"top", "put_size", "put_small", "put_large", "get_ack"}
  /\ spc = "put_size" => sq # <<>>
  /\ sq # <<>> => Here.t \in CASE spc = "top" -> Commands
                               [] spc = "put_size" -> {"do_not_create", "size"}
                               [] spc = "get_ack" -> {"ack"}
                               [] OTHER -> {"block"}
  /\ \A i \in 2..Len(sq) : sq[i].d.t # "ack"

\* All that c waits for is still behind a datagram of type t in sq, or the
\* server has taken everything.
Queued(c, types) == cq[c] = <<>> /\ sq # <<>> /\ Last(sq).t \in types
Taken(c, n) == sq = <<>> /\ Len(cq[c]) = n
SizeQueued == sq[Len(sq)-1].d.n
BeforeBlock == spc \in {"top", "put_size", "get_ack"}

AtPrompt(c) == cq[c] = <<>> /\ IF sq = <<>> THEN spc = "top"
                               ELSE Last(sq).t \in {"do_not_create", "ack"}
AtReply(c) == Queued(c, {"delete", "ls", "exit"}) \/ (Taken(c, 1) /\ spc = "top")
AtGetSize(c) ==
  \/ Queued(c, {"get"})
  \/ Taken(c, 1) /\ spc = "top" /\ cq[c][1].t = "no_file"
  \/ /\ Taken(c, 2) /\ cq[c][1].t = "size"
     /\ LET n == cq[c][1].n
            b == cq[c][2].bytes
        IN IF IsShort(n) THEN spc = "top"
           ELSE spc = "get_ack" /\ Len(b) > 0 /\ Len(b) + Len(srest) = n
AtGetSmall(c) == Taken(c, 1) /\ spc = "top"
AtGetLarge(c) ==
  /\ spc = "get_ack"
  /\ \/ /\ Taken(c, 1) /\ Len(cq[c][1].bytes) > 0
        /\ done[c] + Len(cq[c][1].bytes) + Len(srest) = need[c]
     \/ /\ Queued(c, {"ack"}) /\ Len(srest) > 0
        /\ done[c] + Len(srest) = need[c]
AtPutAck(c) ==
  \/ /\ Queued(c, {"block"}) /\ BeforeBlock
     /\ ~IsShort(SizeQueued) /\ Len(Last(sq).bytes) > 0
     /\ SizeQueued = Len(Last(sq).bytes) + Len(rest[c])
  \/ /\ Queued(c, {"block"}) /\ spc = "put_large" /\ Len(Last(sq).bytes) > 0
     /\ sdone + Len(Last(sq).bytes) + Len(rest[c]) = sneed
  \/ /\ Taken(c, 1) /\ spc = "put_large"
     /\ Len(rest[c]) > 0 /\ sdone + Len(rest[c]) = sneed
  \/ Taken(c, 2) /\ spc = "top" /\ rest[c] = <<>>
AtPutFinal(c) ==
  \/ Queued(c, {"block"}) /\ BeforeBlock /\ IsShort(SizeQueued)
  \/ Queued(c, {"block"}) /\ spc = "put_small"
  \/ Taken(c, 1) /\ spc = "top"

PhaseOk(c) ==
  /\ cpc[c] \in {"prompt", "gone"} => AtPrompt(c)
  /\ cpc[c] = "reply" => AtReply(c)
  /\ cpc[c] = "get_size" => AtGetSize(c)
  /\ cpc[c] = "get_small" => AtGetSmall(c)
  /\ cpc[c] = "get_large" => AtGetLarge(c)
  /\ cpc[c] = "put_ack" => AtPutAck(c)
  /\ cpc[c] = "put_final" => AtPutFinal(c)
  /\ cpc[c] # "dead"
  \* An ACK that a new command follows was for the last block.
  /\ spc = "get_ack" /\ sq # <<>> /\ cpc[c] # "get_large" => srest = <<>>

\* Only c is using the server.
Alone(c) ==
  /\ \A d \in Client \ {c} : cpc[d] \notin Waiting /\ cq[d] = <<>>
  /\ \A i \in 1..Len(sq) : sq[i].from = c
\* Nobody has waited yet.
Prompt(c) ==
  /\ cpc[c] \in Waiting => ctimer[c] = CTimeout
  /\ spc \in InPut => stimer = STimeout

Order(c) == Alone(c) /\ Prompt(c) /\ Orderly(sq) /\ HeadOk /\ PhaseOk(c)
OrderInv == faults = 0 => \A c \in Client : ~odd[c] => Order(c)

(* ------------------------------- operators ---------------------------- *)

LEMMA DataIs ==
  /\ <<>> \in Data /\ <<Text>> \in Data /\ <<Junk>> \in Data
  /\ \A d \in Data : /\ d # Absent /\ Len(d) \in Nat
                     /\ \A e \in Data : d \o e \in Data /\ Len(d \o e) = Len(d) + Len(e)
<1>1. <<>> \in Data /\ <<Text>> \in Data /\ <<Junk>> \in Data
  BY DEF Data
<1>2. ASSUME NEW d \in Data PROVE d # Absent
  <2>1. \A i \in 1..Len(d) : d[i] # NoOne
    BY UftpAssumption DEF Data
  <2>2. Len(Absent) = 1 /\ Absent[1] = NoOne
    BY DEF Absent
  <2> QED BY <2>1, <2>2
<1>3. ASSUME NEW d \in Data, NEW e \in Data
      PROVE  d \o e \in Data /\ Len(d \o e) = Len(d) + Len(e)
  BY DEF Data
<1> QED BY <1>1, <1>2, <1>3 DEF Data

\* What is sent of a file first, and what is left of it.
LEMMA BlocksAre ==
  ASSUME NEW data \in Data
  PROVE  /\ FirstBlock(data) \in Data /\ AfterBlock(data) \in Data
         /\ Len(FirstBlock(data)) + Len(AfterBlock(data)) = Len(data)
         /\ Len(data) > 0 => Len(FirstBlock(data)) > 0
         /\ FirstBlock(data) \o AfterBlock(data) = data
<1>0. Buf \in Nat /\ Buf > 1 /\ Len(data) \in Nat
  BY UftpAssumption DEF Data
<1>1. CASE Len(data) > Buf
  <2>1. SubSeq(data, 1, Buf) \in Data /\ Len(SubSeq(data, 1, Buf)) = Buf
    BY <1>0, <1>1, SubSeqProperties DEF Data
  <2>2. /\ SubSeq(data, Buf + 1, Len(data)) \in Data
        /\ Len(SubSeq(data, Buf + 1, Len(data))) = Len(data) - Buf
    BY <1>0, <1>1, SubSeqProperties DEF Data
  <2>3. SubSeq(data, 1, Buf) \o SubSeq(data, Buf + 1, Len(data)) = SubSeq(data, 1, Len(data))
    <3>1. 1 \in 1..Len(data)+1 /\ Len(data) \in Buf..Len(data) /\ Buf \in 1-1 .. Len(data)
      BY <1>0, <1>1
    <3>2. data \in Seq(Unit \cup {Text, Junk})
      BY DEF Data
    <3> QED BY <3>1, <3>2, ConcatAdjacentSubSeq
  <2>4. SubSeq(data, 1, Len(data)) = data
    BY SubSeqFull DEF Data
  <2>5. FirstBlock(data) = SubSeq(data, 1, Buf) /\ AfterBlock(data) = SubSeq(data, Buf + 1, Len(data))
    BY <1>1 DEF FirstBlock, AfterBlock
  <2>6. FirstBlock(data) \o AfterBlock(data) = data
    BY <2>3, <2>4, <2>5
  <2>7. Len(FirstBlock(data)) = Buf /\ Len(AfterBlock(data)) = Len(data) - Buf
    BY <2>1, <2>2, <2>5
  <2>8. FirstBlock(data) \in Data /\ AfterBlock(data) \in Data
    BY <2>1, <2>2, <2>5
  <2>9. /\ Len(FirstBlock(data)) + Len(AfterBlock(data)) = Len(data)
        /\ Len(data) > 0 => Len(FirstBlock(data)) > 0
    BY <1>0, <2>7
  <2> QED BY <2>6, <2>8, <2>9
<1>2. CASE ~(Len(data) > Buf)
  <2>1. FirstBlock(data) = data /\ AfterBlock(data) = <<>>
    BY <1>2 DEF FirstBlock, AfterBlock
  <2>2. data \o <<>> = data
    BY ConcatEmptySeq DEF Data
  <2> QED BY <1>0, <2>1, <2>2, DataIs
<1> QED BY <1>1, <1>2

LEMMA DatagramIs ==
  ASSUME NEW d \in Datagram
  PROVE  /\ d.bytes \in Data /\ Number(d) \in Nat
         /\ d.t = "size" => d.n \in Nat /\ Number(d) = d.n
BY DEF Datagram, Number, Commands

\* Every message is a datagram that its receiver can take.
LEMMA MessagesAre ==
  /\ Msg("no_file") \in ToClients /\ Msg("do_not_create") \in ToServers
  /\ Ack \in ToServers /\ Ack \in ToClients
  /\ \A t \in Told \ {"nothing", "size", "block", "no_file", "get_successful", "timeout",
                      "lost_get_successful", "enter_an_existing_file"} :
       FullMsg(t) \in ToClients
  /\ \A f \in File : \A t \in Commands : Request(t, f) \in ToServers
  /\ \A t \in {"ls", "exit"} : Request(t, NoOne) \in ToServers
  /\ \A n \in Nat : SizeMsg(n) \in ToServers /\ SizeMsg(n) \in ToClients
  /\ \A b \in Data : Block(b) \in ToServers /\ Block(b) \in ToClients
<1>1. [i \in 1..Buf |-> Text] \in Data
  BY UftpAssumption DEF Data
<1> QED BY <1>1, DataIs DEF Msg, FullMsg, Ack, Request, SizeMsg, Block, ToServers, ToClients,
      Datagram, Told, Commands

LEMMA OpeningIs ==
  ASSUME NEW data \in Data
  PROVE  /\ Opening(data) \in Seq(ToServers) /\ Opening(data) \in Seq(ToClients)
         /\ Len(Opening(data)) = 2
         /\ Opening(data)[1] = SizeMsg(Len(data)) /\ Opening(data)[2] = Block(FirstBlock(data))
<1> DEFINE n == Len(data)
           b == FirstBlock(data)
<1>1. n \in Nat /\ b \in Data
  BY BlocksAre, DataIs
<1>2. Opening(data) = <<SizeMsg(n), Block(b)>>
  BY DEF Opening
<1> HIDE DEF n, b
<1>3. SizeMsg(n) \in ToServers /\ SizeMsg(n) \in ToClients
      /\ Block(b) \in ToServers /\ Block(b) \in ToClients
  BY <1>1, MessagesAre
<1>4. /\ <<SizeMsg(n), Block(b)>> \in Seq(ToServers)
      /\ <<SizeMsg(n), Block(b)>> \in Seq(ToClients)
      /\ Len(<<SizeMsg(n), Block(b)>>) = 2
      /\ <<SizeMsg(n), Block(b)>>[1] = SizeMsg(n) /\ <<SizeMsg(n), Block(b)>>[2] = Block(b)
  BY <1>3
<1>5. Opening(data)[1] = SizeMsg(n) /\ Opening(data)[2] = Block(b)
  BY <1>2, <1>4
<1>6. /\ Opening(data) \in Seq(ToServers) /\ Opening(data) \in Seq(ToClients)
      /\ Len(Opening(data)) = 2
  BY <1>2, <1>4
<1> QED BY <1>5, <1>6 DEF n, b

(* -------------------------------- types ------------------------------- *)

ClientTypes ==
  /\ cpc \in [Client -> Waiting \cup {"prompt", "gone", "dead"}]
  /\ cmd \in [Client -> Commands \cup {"none"}]
  /\ cfile \in [Client -> File \cup {NoOne}]
  /\ need \in [Client -> Nat] /\ done \in [Client -> Nat] /\ rest \in [Client -> Data]
  /\ ctimer \in [Client -> 0..CTimeout]
  /\ dir \in [Client -> [File -> Data \cup {Absent}]]
  /\ told \in [Client -> Told] /\ entered \in [Client -> 0..MaxCmd]
ServerTypes ==
  /\ spc \in InPut \cup {"top", "get_ack", "dead"}
  /\ sfile \in File \cup {NoOne} /\ sneed \in Nat /\ sdone \in Nat /\ srest \in Data
  /\ stimer \in 0..STimeout /\ peer \in Client \cup {NoOne}
  /\ disk \in [File -> Data \cup {Absent}]
HistTypes ==
  /\ faults \in 0..MaxFault /\ clean \in [Client -> BOOLEAN]
  /\ odd \in [Client -> BOOLEAN] /\ lost \in [Client -> Nat]
ClientsOk == \A c \in Client : ClientOk(c)

\* TypeInv in parts: of the clients, of the server, of the network.
LEMMA TypeParts ==
  TypeInv <=> ClientTypes /\ ServerTypes /\ HistTypes /\ QueuesOk /\ ServerOk /\ ClientsOk
<1>1. TypeInv => ClientTypes /\ ServerTypes /\ HistTypes /\ QueuesOk /\ ServerOk /\ ClientsOk
  BY DEF TypeInv, TypeOK, ClientTypes, ServerTypes, HistTypes, ClientsOk
<1>2. ASSUME ClientTypes, ServerTypes, HistTypes, QueuesOk, ServerOk, ClientsOk
      PROVE  TypeInv
  <2>1. sq \in Seq([from : Client, d : Datagram]) /\ cq \in [Client -> Seq(Datagram)]
    <3>1. Sent \subseteq [from : Client, d : Datagram] /\ ToClients \subseteq Datagram
      BY DEF Sent, ToServers, ToClients
    <3>2. \A q \in Seq(Sent) : q \in Seq([from : Client, d : Datagram])
      BY <3>1, SeqMonotonic
    <3>3. \A q \in Seq(ToClients) : q \in Seq(Datagram)
      BY <3>1, SeqMonotonic
    <3> QED BY <1>2, <3>2, <3>3 DEF QueuesOk
  <2>2. lost \in [Client -> 0..MaxFault]
    BY <1>2, UftpAssumption DEF ClientsOk, ClientOk, HistTypes
  <2>3. TypeOK
    BY <1>2, <2>1, <2>2 DEF TypeOK, ClientTypes, ServerTypes, HistTypes
  <2> QED BY <1>2, <2>3 DEF TypeInv, ClientsOk
<1> QED BY <1>1, <1>2

LEMMA TypeInit == Init => TypeInv
<1> SUFFICES ASSUME Init PROVE TypeInv
  OBVIOUS
<1>1. PICK localFiles \in [Client -> Files], serverFiles \in Files :
        Start(localFiles, serverFiles)
  BY DEF Init
<1>2. Files \subseteq [File -> Data \cup {Absent}]
  BY DEF Files, Data
<1>3. ClientTypes
  BY <1>1, <1>2, DataIs, UftpAssumption DEF Start, ClientTypes, Told, CTimeout
<1>4. ServerTypes
  BY <1>1, <1>2, DataIs DEF Start, ServerTypes, STimeout
<1>5. HistTypes
  BY <1>1, UftpAssumption DEF Start, HistTypes
<1>6. QueuesOk
  BY <1>1 DEF Start, QueuesOk
<1>7. ServerOk /\ ClientsOk
  BY <1>1 DEF Start, ServerOk, ClientsOk, ClientOk, InPut, Waiting, Transfers
<1> QED BY <1>3, <1>4, <1>5, <1>6, <1>7, TypeParts

\* Sending and receiving.
LEMMA SendToServer ==
  ASSUME QueuesOk, NEW c \in Client, NEW ds \in Seq(ToServers), ToServer(c, ds)
  PROVE  sq' \in Seq(Sent)
<1>1. [i \in DOMAIN ds |-> [from |-> c, d |-> ds[i]]] \in Seq(Sent)
  <2>1. DOMAIN ds = 1..Len(ds) /\ Len(ds) \in Nat
    OBVIOUS
  <2>2. \A i \in 1..Len(ds) : [from |-> c, d |-> ds[i]] \in Sent
    BY DEF Sent
  <2> QED BY <2>1, <2>2
<1> QED BY <1>1 DEF QueuesOk, ToServer

LEMMA SendToClient ==
  ASSUME QueuesOk, NEW c \in Client \cup {NoOne}, NEW ds \in Seq(ToClients), ToClient(c, ds)
  PROVE  cq' \in [Client -> Seq(ToClients)]
<1>1. CASE cq' = cq
  BY <1>1 DEF QueuesOk
<1>2. CASE c \in Client /\ cq' = [cq EXCEPT ![c] = @ \o ds]
  BY <1>2 DEF QueuesOk
<1> QED BY <1>1, <1>2 DEF ToClient

LEMMA ServerTakes ==
  ASSUME QueuesOk, sq # <<>>
  PROVE  Tail(sq) \in Seq(Sent) /\ From \in Client /\ Here \in ToServers /\ Here \in Datagram
<1>1. sq \in Seq(Sent)
  BY DEF QueuesOk
<1>2. Head(sq) \in Sent /\ Tail(sq) \in Seq(Sent)
  BY <1>1
<1> QED BY <1>2 DEF Sent, From, Here, ToServers

LEMMA ClientTakes ==
  ASSUME QueuesOk, NEW c \in Client, cq[c] # <<>>
  PROVE  /\ Got(c) \in ToClients /\ Got(c) \in Datagram
         /\ Took(c) => cq' \in [Client -> Seq(ToClients)]
<1>1. cq[c] \in Seq(ToClients)
  BY DEF QueuesOk
<1>2. Head(cq[c]) \in ToClients /\ Tail(cq[c]) \in Seq(ToClients)
  BY <1>1
<1> QED BY <1>2 DEF QueuesOk, Got, Took, ToClients

\* What a command starts with.
LEMMA EntersTypes ==
  ASSUME TypeInv, NEW c \in Client, NEW command, NEW f \in File \cup {NoOne},
         Enters(c, command, f)
  PROVE  /\ HistTypes' /\ ServerTypes' /\ ServerOk' /\ cq' \in [Client -> Seq(ToClients)]
         /\ command \in Commands /\ dir' = dir
         /\ cmd' \in [Client -> Commands \cup {"none"}]
         /\ cfile' = [cfile EXCEPT ![c] = f]
         /\ cfile' \in [Client -> File \cup {NoOne}]
         /\ entered' \in [Client -> 0..MaxCmd]
         /\ lost' = [lost EXCEPT ![c] = 0] /\ faults' = faults
<1>1. /\ HistTypes /\ ClientTypes /\ ServerTypes /\ ServerOk /\ cq \in [Client -> Seq(ToClients)]
      /\ command \in Commands /\ MaxCmd \in Nat
  BY TypeParts, UftpAssumption DEF QueuesOk, Enters
<1>2. HistTypes'
  <2>1. faults' \in 0..MaxFault
    BY <1>1 DEF Enters, HistTypes
  <2>2. clean' \in [Client -> BOOLEAN]
    BY <1>1 DEF Enters, HistTypes, Quiet
  <2>3. odd' \in [Client -> BOOLEAN]
    BY <1>1 DEF Enters, HistTypes
  <2>4. lost' \in [Client -> Nat]
    BY <1>1 DEF Enters, HistTypes
  <2> QED BY <2>1, <2>2, <2>3, <2>4 DEF HistTypes
<1>3. ServerTypes' /\ ServerOk' /\ cq' \in [Client -> Seq(ToClients)]
  BY <1>1 DEF Enters, ServerTypes, ServerOk, server
<1>4. cmd' \in [Client -> Commands \cup {"none"}] /\ cfile' \in [Client -> File \cup {NoOne}]
  BY <1>1 DEF Enters, ClientTypes
<1>5. entered' \in [Client -> 0..MaxCmd]
  BY <1>1 DEF Enters, ClientTypes
<1> QED BY <1>1, <1>2, <1>3, <1>4, <1>5 DEF Enters

\* Client c alone moves, and nobody loses anything by it.
LEMMA OnesMove ==
  ASSUME TypeInv, NEW c \in Client,
         \A d \in Client \ {c} : cpc'[d] = cpc[d] /\ cfile'[d] = cfile[d] /\ dir'[d] = dir[d],
         cpc'[c] \in Transfers => cfile'[c] \in File,
         cpc'[c] \in {"get_small", "get_large"} => dir'[c][cfile'[c]] # Absent,
         \/ faults' = faults /\ lost' = lost
         \/ faults' = faults /\ lost' = [lost EXCEPT ![c] = 0]
         \/ faults' = faults + 1 /\ lost' = lost
  PROVE  ClientsOk'
<1>1. ClientTypes /\ HistTypes /\ ClientsOk
  BY TypeParts
<1>2. \A d \in Client : lost'[d] <= faults'
  BY <1>1 DEF ClientsOk, ClientOk, HistTypes
<1>3. ASSUME NEW d \in Client PROVE ClientOk(d)'
  BY <1>1, <1>2 DEF ClientsOk, ClientOk
<1> QED BY <1>3 DEF ClientsOk

LEMMA TypePartsNext ==
  ASSUME ClientTypes', ServerTypes', HistTypes', ServerOk', ClientsOk',
         sq' \in Seq(Sent), cq' \in [Client -> Seq(ToClients)]
  PROVE  TypeInv'
<1>1. QueuesOk'
  BY DEF QueuesOk
<1> QED BY <1>1, TypeParts, PTL

LEMMA EnterTypes ==
  ASSUME TypeInv, NEW c \in Client, Enter(c)
  PROVE  TypeInv'
<1>1. /\ ClientTypes /\ ServerTypes /\ HistTypes /\ QueuesOk /\ ServerOk /\ ClientsOk
  BY TypeParts
<1>2. \A d \in Client : cpc[d] \in Waiting \cup {"prompt", "gone", "dead"}
  BY <1>1 DEF ClientTypes
<1> USE <1>1
<1>3. ASSUME NEW f \in File, Get(c, f) PROVE TypeInv'
  <2>1. Enters(c, "get", f)
    BY <1>3 DEF Get
  <2>2. /\ HistTypes' /\ ServerTypes' /\ ServerOk' /\ cq' \in [Client -> Seq(ToClients)]
    BY <2>1, EntersTypes
  <2>3. ClientTypes'
    BY <1>3, <2>1, EntersTypes DEF ClientTypes, Get, WaitIn, Waiting, CTimeout
  <2>4. ClientsOk'
    <3>1. /\ dir' = dir /\ faults' = faults /\ lost' = [lost EXCEPT ![c] = 0]
          /\ \A d \in Client \ {c} : cpc'[d] = cpc[d] /\ cfile'[d] = cfile[d]
          /\ cpc'[c] = "get_size" /\ cfile'[c] = f
      BY <1>3, <2>1, EntersTypes DEF Get, WaitIn, ClientTypes
    <3> QED BY <3>1, OnesMove DEF Transfers, Waiting
  <2>5. sq' \in Seq(Sent)
    <3>1. Request("get", f) \in ToServers
      BY MessagesAre DEF Commands
    <3>2. <<Request("get", f)>> \in Seq(ToServers)
      BY <3>1
    <3> QED BY <1>3, <3>2, SendToServer DEF Get
  <2> QED BY <2>2, <2>3, <2>4, <2>5, TypePartsNext
<1>4. ASSUME NEW f \in File, Delete(c, f) PROVE TypeInv'
  <2>1. Enters(c, "delete", f)
    BY <1>4 DEF Delete
  <2>2. /\ HistTypes' /\ ServerTypes' /\ ServerOk' /\ cq' \in [Client -> Seq(ToClients)]
    BY <2>1, EntersTypes
  <2>3. ClientTypes'
    BY <1>4, <2>1, EntersTypes DEF ClientTypes, Delete, WaitIn, Waiting, CTimeout
  <2>4. ClientsOk'
    <3>1. /\ dir' = dir /\ faults' = faults /\ lost' = [lost EXCEPT ![c] = 0]
          /\ \A d \in Client \ {c} : cpc'[d] = cpc[d] /\ cfile'[d] = cfile[d]
          /\ cpc'[c] = "reply"
      BY <1>4, <2>1, EntersTypes DEF Delete, WaitIn, ClientTypes
    <3> QED BY <3>1, OnesMove DEF Transfers, Waiting
  <2>5. sq' \in Seq(Sent)
    <3>1. Request("delete", f) \in ToServers
      BY MessagesAre DEF Commands
    <3>2. <<Request("delete", f)>> \in Seq(ToServers)
      BY <3>1
    <3> QED BY <1>4, <3>2, SendToServer DEF Delete
  <2> QED BY <2>2, <2>3, <2>4, <2>5, TypePartsNext
<1>5. ASSUME NEW f \in File, PutNoFile(c, f) PROVE TypeInv'
  <2>1. Enters(c, "put", f)
    BY <1>5 DEF PutNoFile
  <2>2. /\ HistTypes' /\ ServerTypes' /\ ServerOk' /\ cq' \in [Client -> Seq(ToClients)]
    BY <2>1, EntersTypes
  <2>3. ClientTypes'
    BY <1>5, <2>1, EntersTypes, <1>2 DEF ClientTypes, PutNoFile, Tells, CTimeout, Told
  <2>4. ClientsOk'
    <3>1. /\ dir' = dir /\ faults' = faults /\ lost' = [lost EXCEPT ![c] = 0]
          /\ \A d \in Client \ {c} : cpc'[d] = cpc[d] /\ cfile'[d] = cfile[d]
          /\ cpc'[c] = "prompt"
      BY <1>5, <2>1, EntersTypes DEF PutNoFile, Tells, ClientTypes
    <3> QED BY <3>1, OnesMove DEF Transfers, Waiting
  <2>5. sq' \in Seq(Sent)
    <3>1. Request("put", f) \in ToServers /\ Msg("do_not_create") \in ToServers
      BY MessagesAre DEF Commands
    <3>2. <<Request("put", f), Msg("do_not_create")>> \in Seq(ToServers)
      BY <3>1
    <3> QED BY <1>5, <3>2, SendToServer DEF PutNoFile
  <2> QED BY <2>2, <2>3, <2>4, <2>5, TypePartsNext
<1>6. ASSUME NEW f \in File, Put(c, f) PROVE TypeInv'
  <2>1. Enters(c, "put", f)
    BY <1>6 DEF Put
  <2>2. /\ HistTypes' /\ ServerTypes' /\ ServerOk' /\ cq' \in [Client -> Seq(ToClients)]
    BY <2>1, EntersTypes
  <2>3. dir[c][f] \in Data
    BY <1>6 DEF Put, ClientTypes
  <2>4. AfterBlock(dir[c][f]) \in Data
    BY <2>3, BlocksAre
  <2>5. ClientTypes'
    BY <1>6, <2>1, <2>4, EntersTypes DEF ClientTypes, Put, WaitIn, Waiting, CTimeout
  <2>6. ClientsOk'
    <3>1. /\ dir' = dir /\ faults' = faults /\ lost' = [lost EXCEPT ![c] = 0]
          /\ \A d \in Client \ {c} : cpc'[d] = cpc[d] /\ cfile'[d] = cfile[d]
          /\ cpc'[c] \in {"put_ack", "put_final"} /\ cfile'[c] = f
      BY <1>6, <2>1, EntersTypes DEF Put, WaitIn, ClientTypes
    <3> QED BY <3>1, OnesMove DEF Transfers, Waiting
  <2>7. sq' \in Seq(Sent)
    <3>1. Request("put", f) \in ToServers /\ Opening(dir[c][f]) \in Seq(ToServers)
      BY <2>3, MessagesAre, OpeningIs DEF Commands
    <3>2. <<Request("put", f)>> \o Opening(dir[c][f]) \in Seq(ToServers)
      BY <3>1
    <3> QED BY <1>6, <3>2, SendToServer DEF Put
  <2> QED BY <2>2, <2>5, <2>6, <2>7, TypePartsNext
<1>7. ASSUME ListOrExit(c) PROVE TypeInv'
  <2>1. PICK command \in {"ls", "exit"} :
          /\ Enters(c, command, NoOne) /\ ToServer(c, <<Request(command, NoOne)>>)
          /\ WaitIn(c, "reply") /\ UNCHANGED <<need, done, rest, told>>
    BY <1>7 DEF ListOrExit
  <2>2. /\ HistTypes' /\ ServerTypes' /\ ServerOk' /\ cq' \in [Client -> Seq(ToClients)]
    BY <2>1, EntersTypes
  <2>3. ClientTypes'
    BY <2>1, EntersTypes DEF ClientTypes, WaitIn, Waiting, CTimeout
  <2>4. ClientsOk'
    <3>1. /\ dir' = dir /\ faults' = faults /\ lost' = [lost EXCEPT ![c] = 0]
          /\ \A d \in Client \ {c} : cpc'[d] = cpc[d] /\ cfile'[d] = cfile[d]
          /\ cpc'[c] = "reply"
      BY <2>1, EntersTypes DEF WaitIn, ClientTypes
    <3> QED BY <3>1, OnesMove DEF Transfers, Waiting
  <2>5. sq' \in Seq(Sent)
    <3>1. Request(command, NoOne) \in ToServers
      BY MessagesAre
    <3>2. <<Request(command, NoOne)>> \in Seq(ToServers)
      BY <3>1
    <3> QED BY <2>1, <3>2, SendToServer
  <2> QED BY <2>2, <2>3, <2>4, <2>5, TypePartsNext
<1> QED BY <1>3, <1>4, <1>5, <1>6, <1>7 DEF Enter

\* What does not move when a client goes on.
LEMMA ServerIdle ==
  ASSUME TypeInv, UNCHANGED server
  PROVE  ServerTypes' /\ ServerOk'
BY TypeParts DEF server, ServerTypes, ServerOk

LEMMA HistSame ==
  ASSUME TypeInv, UNCHANGED hist
  PROVE  HistTypes'
BY TypeParts DEF hist, HistTypes

LEMMA TimesOutTypes ==
  ASSUME TypeInv, NEW c \in Client, NEW state, TimesOut(c, state)
  PROVE  /\ HistTypes' /\ ServerTypes' /\ ServerOk'
         /\ cfile' = cfile /\ cmd' = cmd /\ entered' = entered /\ lost' = lost
         /\ faults' = faults \/ faults' = faults + 1
<1>1. HistTypes
  BY TypeParts
<1>2. HistTypes'
  <2>1. faults' \in 0..MaxFault
    BY <1>1, UftpAssumption DEF TimesOut, HistTypes
  <2>2. odd' = odd \/ odd' = [d \in Client |-> TRUE]
    BY DEF TimesOut
  <2>3. odd' \in [Client -> BOOLEAN]
    BY <1>1, <2>2 DEF HistTypes
  <2> QED BY <1>1, <2>1, <2>3 DEF TimesOut, HistTypes
<1> QED BY <1>2, ServerIdle DEF TimesOut

LEMMA KeepsTypes ==
  ASSUME TypeInv, Keeps
  PROVE  /\ HistTypes' /\ ServerTypes' /\ ServerOk'
         /\ cfile' = cfile /\ cmd' = cmd /\ entered' = entered /\ lost' = lost
         /\ faults' = faults
BY ServerIdle, HistSame DEF Keeps, hist

\* The types of a client that goes on: it waits in state, or has told what.
LEMMA MoveTypes ==
  ASSUME TypeInv, NEW c \in Client,
         cmd' = cmd, cfile' = cfile, entered' = entered,
         need' \in [Client -> Nat], done' \in [Client -> Nat], rest' \in [Client -> Data],
         dir' \in [Client -> [File -> Data \cup {Absent}]],
         \/ \E state \in Waiting : WaitIn(c, state) /\ told' = told
         \/ \E what \in Told : Tells(c, what)
         \/ \E state \in {"gone", "dead"} :
              cpc' = [cpc EXCEPT ![c] = state] /\ UNCHANGED <<ctimer, told>>
  PROVE  ClientTypes'
<1>1. ClientTypes
  BY TypeParts
<1> DEFINE Good == /\ cpc' \in [Client -> Waiting \cup {"prompt", "gone", "dead"}]
                   /\ ctimer' \in [Client -> 0..CTimeout]
                   /\ told' \in [Client -> Told]
<1>2. ASSUME NEW state \in Waiting, WaitIn(c, state), told' = told PROVE Good
  BY <1>1, <1>2 DEF ClientTypes, WaitIn, CTimeout
<1>3. ASSUME NEW what \in Told, Tells(c, what) PROVE Good
  BY <1>1, <1>3 DEF ClientTypes, Tells, CTimeout
<1>4. ASSUME NEW state \in {"gone", "dead"}, cpc' = [cpc EXCEPT ![c] = state],
             UNCHANGED <<ctimer, told>>
      PROVE  Good
  BY <1>1, <1>4 DEF ClientTypes
<1> QED BY <1>1, <1>2, <1>3, <1>4 DEF ClientTypes

\* Writing to the local file.
LEMMA Writes ==
  ASSUME TypeInv, NEW c \in Client, cpc[c] \in Transfers, NEW data \in Data,
         dir' = [dir EXCEPT ![c][cfile[c]] = data]
  PROVE  /\ dir' \in [Client -> [File -> Data \cup {Absent}]]
         /\ \A d \in Client \ {c} : dir'[d] = dir[d]
         /\ dir'[c][cfile[c]] = data /\ dir'[c][cfile[c]] # Absent
<1>1. ClientTypes /\ cfile[c] \in File /\ data # Absent
  BY TypeParts, DataIs DEF ClientsOk, ClientOk
<1>2. dir \in [Client -> [File -> Data \cup {Absent}]]
  BY <1>1 DEF ClientTypes
<1> QED BY <1>1, <1>2

\* A client that goes on to state, of its file or of none.
LEMMA StaysOk ==
  ASSUME TypeInv, NEW c \in Client, cpc[c] \in Transfers \/ cpc'[c] \notin Transfers,
         \A d \in Client \ {c} : cpc'[d] = cpc[d] /\ dir'[d] = dir[d],
         cfile' = cfile, lost' = lost, faults' = faults \/ faults' = faults + 1,
         cpc'[c] \in {"get_small", "get_large"} => dir'[c][cfile[c]] # Absent
  PROVE  ClientsOk'
<1>1. cpc[c] \in Transfers => cfile[c] \in File
  BY TypeParts DEF ClientsOk, ClientOk
<1> QED BY <1>1, OnesMove

LEMMA GetTypes ==
  ASSUME TypeInv, NEW c \in Client,
         GetNoFile(c) \/ GetSize(c) \/ GetSmall(c) \/ GetLarge(c)
  PROVE  TypeInv'
<1>1. /\ ClientTypes /\ QueuesOk /\ Keeps /\ cq[c] # <<>> /\ Took(c)
  BY TypeParts DEF GetNoFile, GetSize, GetSmall, GetLarge, Receives
<1>2. /\ HistTypes' /\ ServerTypes' /\ ServerOk'
      /\ cfile' = cfile /\ cmd' = cmd /\ entered' = entered /\ lost' = lost
      /\ faults' = faults
  BY <1>1, KeepsTypes
<1>3. /\ Got(c) \in Datagram /\ cq' \in [Client -> Seq(ToClients)]
      /\ Got(c).bytes \in Data /\ Number(Got(c)) \in Nat
  BY <1>1, ClientTakes, DatagramIs
<1>4. CASE GetNoFile(c)
  <2>1. ClientTypes'
    BY <1>1, <1>2, <1>4, MoveTypes DEF GetNoFile, Told, ClientTypes
  <2>2. ClientsOk'
    <3>1. /\ cpc'[c] = "prompt" /\ dir' = dir /\ \A d \in Client \ {c} : cpc'[d] = cpc[d]
      BY <1>1, <1>4 DEF GetNoFile, Tells, ClientTypes
    <3> QED BY <1>2, <3>1, StaysOk DEF Transfers, Waiting
  <2>3. sq' \in Seq(Sent)
    BY <1>1, <1>4 DEF GetNoFile, QueuesOk
  <2> QED BY <1>2, <1>3, <2>1, <2>2, <2>3, TypePartsNext
<1>5. CASE GetSize(c)
  <2>1. cpc[c] \in Transfers /\ dir' = [dir EXCEPT ![c][cfile[c]] = <<>>]
    BY <1>5 DEF GetSize, Receives, Transfers, Waiting
  <2>2. /\ dir' \in [Client -> [File -> Data \cup {Absent}]]
        /\ \A d \in Client \ {c} : dir'[d] = dir[d]
        /\ dir'[c][cfile[c]] # Absent
    BY <2>1, Writes, DataIs
  <2>3. PICK state \in {"get_small", "get_large"} : WaitIn(c, state)
    BY <1>5 DEF GetSize
  <2>4. ClientTypes'
    BY <1>1, <1>2, <1>3, <1>5, <2>2, <2>3, MoveTypes DEF GetSize, ClientTypes, Waiting
  <2>5. ClientsOk'
    BY <1>1, <1>2, <2>1, <2>2, <2>3, StaysOk DEF WaitIn, ClientTypes
  <2>6. sq' \in Seq(Sent)
    BY <1>1, <1>5 DEF GetSize, QueuesOk
  <2> QED BY <1>2, <1>3, <2>4, <2>5, <2>6, TypePartsNext
<1>6. CASE GetSmall(c)
  <2>1. cpc[c] \in Transfers /\ dir' = [dir EXCEPT ![c][cfile[c]] = Got(c).bytes]
    BY <1>6 DEF GetSmall, Receives, Transfers, Waiting
  <2>2. /\ dir' \in [Client -> [File -> Data \cup {Absent}]]
        /\ \A d \in Client \ {c} : dir'[d] = dir[d]
    BY <1>3, <2>1, Writes
  <2>3. ClientTypes'
    BY <1>1, <1>2, <1>6, <2>2, MoveTypes DEF GetSmall, ClientTypes, Told
  <2>4. ClientsOk'
    <3>1. cpc'[c] = "prompt" /\ \A d \in Client \ {c} : cpc'[d] = cpc[d]
      BY <1>1, <1>6 DEF GetSmall, Tells, ClientTypes
    <3> QED BY <1>2, <2>1, <2>2, <3>1, StaysOk
  <2>5. sq' \in Seq(Sent)
    BY <1>1, <1>6 DEF GetSmall, QueuesOk
  <2> QED BY <1>2, <1>3, <2>3, <2>4, <2>5, TypePartsNext
<1>7. CASE GetLarge(c)
  <2>1. cpc[c] = "get_large" /\ cpc[c] \in Transfers
    BY <1>7 DEF GetLarge, Receives, Transfers, Waiting
  <2>2. cfile[c] \in File /\ dir[c][cfile[c]] \in Data
    BY <1>1, <2>1, TypeParts DEF ClientTypes, ClientsOk, ClientOk
  <2>3. dir[c][cfile[c]] \o Got(c).bytes \in Data /\ Len(Got(c).bytes) \in Nat
    BY <1>3, <2>2, DataIs
  <2>4. dir' = [dir EXCEPT ![c][cfile[c]] = dir[c][cfile[c]] \o Got(c).bytes]
    BY <1>7 DEF GetLarge
  <2>5. /\ dir' \in [Client -> [File -> Data \cup {Absent}]]
        /\ \A d \in Client \ {c} : dir'[d] = dir[d]
        /\ dir'[c][cfile[c]] # Absent
    BY <2>1, <2>3, <2>4, Writes
  <2>6. done' \in [Client -> Nat] /\ need' = need /\ rest' = rest
    BY <1>1, <1>7, <2>3 DEF GetLarge, ClientTypes
  <2>7. (WaitIn(c, "get_large") /\ told' = told) \/ Tells(c, "get_successful")
    BY <1>7 DEF GetLarge
  <2>8. ClientTypes'
    BY <1>1, <1>2, <2>5, <2>6, <2>7, MoveTypes DEF ClientTypes, Told, Waiting
  <2>9. ClientsOk'
    BY <1>1, <1>2, <2>1, <2>5, <2>7, StaysOk DEF WaitIn, Tells, ClientTypes
  <2>10. sq' \in Seq(Sent)
    <3>1. <<Ack>> \in Seq(ToServers)
      BY MessagesAre
    <3> QED BY <1>1, <1>7, <3>1, SendToServer DEF GetLarge
  <2> QED BY <1>2, <1>3, <2>8, <2>9, <2>10, TypePartsNext
<1> QED BY <1>4, <1>5, <1>6, <1>7

LEMMA GetTimeTypes ==
  ASSUME TypeInv, NEW c \in Client,
         GetTimesOut(c) \/ GetSmallTimesOut(c) \/ GetLargeTimesOut(c)
  PROVE  TypeInv'
<1>1. /\ ClientTypes /\ QueuesOk
      /\ \E state \in Transfers : TimesOut(c, state)
  BY TypeParts DEF GetTimesOut, GetSmallTimesOut, GetLargeTimesOut, Transfers, Waiting
<1>2. /\ HistTypes' /\ ServerTypes' /\ ServerOk'
      /\ cfile' = cfile /\ cmd' = cmd /\ entered' = entered /\ lost' = lost
      /\ faults' = faults \/ faults' = faults + 1
  BY <1>1, TimesOutTypes
<1>3. cpc[c] \in Transfers
  BY <1>1 DEF TimesOut
<1>4. CASE GetTimesOut(c) \/ GetLargeTimesOut(c)
  <2>1. dir' = dir /\ sq' = sq /\ cq' = cq
    BY <1>4 DEF GetTimesOut, GetLargeTimesOut
  <2>2. PICK what \in Told : Tells(c, what)
    BY <1>4 DEF GetTimesOut, GetLargeTimesOut, Told
  <2>3. ClientTypes'
    BY <1>1, <1>2, <1>4, <2>2, MoveTypes DEF GetTimesOut, GetLargeTimesOut, ClientTypes
  <2>4. ClientsOk'
    <3>1. cpc'[c] = "prompt" /\ \A d \in Client \ {c} : cpc'[d] = cpc[d]
      BY <1>1, <2>2 DEF Tells, ClientTypes
    <3> QED BY <1>2, <1>3, <2>1, <3>1, StaysOk
  <2> QED BY <1>1, <1>2, <2>1, <2>3, <2>4, TypePartsNext DEF QueuesOk
<1>5. CASE GetSmallTimesOut(c)
  <2>1. /\ dir' \in [Client -> [File -> Data \cup {Absent}]]
        /\ \A d \in Client \ {c} : dir'[d] = dir[d]
    BY <1>3, <1>5, Writes, DataIs DEF GetSmallTimesOut
  <2>2. \/ Tells(c, "get_successful") /\ cq' = cq
        \/ /\ cpc' = [cpc EXCEPT ![c] = "dead"] /\ UNCHANGED <<ctimer, told>>
           /\ cq' = [cq EXCEPT ![c] = <<>>]
    BY <1>5 DEF GetSmallTimesOut
  <2>3. need' = need /\ done' = done /\ rest' = rest /\ sq' = sq
    BY <1>5 DEF GetSmallTimesOut
  <2>4. ClientTypes'
    BY <1>1, <1>2, <2>1, <2>2, <2>3, MoveTypes DEF ClientTypes, Told
  <2>5. ClientsOk'
    <3>1. cpc'[c] \in {"prompt", "dead"} /\ \A d \in Client \ {c} : cpc'[d] = cpc[d]
      BY <1>1, <2>2 DEF Tells, ClientTypes
    <3> QED BY <1>2, <1>3, <2>1, <3>1, StaysOk
  <2>6. cq' \in [Client -> Seq(ToClients)]
    <3>1. cq \in [Client -> Seq(ToClients)] /\ <<>> \in Seq(ToClients)
      BY <1>1 DEF QueuesOk
    <3>2. cq' = cq \/ cq' = [cq EXCEPT ![c] = <<>>]
      BY <2>2
    <3> QED BY <3>1, <3>2
  <2> QED BY <1>1, <1>2, <2>3, <2>4, <2>5, <2>6, TypePartsNext DEF QueuesOk
<1> QED BY <1>4, <1>5

LEMMA NextBlockTypes ==
  ASSUME TypeInv, NEW c \in Client, NextBlock(c)
  PROVE  /\ rest' \in [Client -> Data] /\ sq' \in Seq(Sent)
         /\ \E state \in {"put_ack", "put_final"} : WaitIn(c, state)
<1>1. ClientTypes /\ QueuesOk
  BY TypeParts
<1>2. FirstBlock(rest[c]) \in Data /\ AfterBlock(rest[c]) \in Data
  BY <1>1, BlocksAre DEF ClientTypes
<1>3. <<Block(FirstBlock(rest[c]))>> \in Seq(ToServers)
  BY <1>2, MessagesAre
<1>4. CASE rest[c] # <<>>
  <2>1. /\ ToServer(c, <<Block(FirstBlock(rest[c]))>>) /\ WaitIn(c, "put_ack")
        /\ rest' = [rest EXCEPT ![c] = AfterBlock(rest[c])]
    BY <1>4 DEF NextBlock
  <2> QED BY <1>1, <1>2, <1>3, <2>1, SendToServer DEF ClientTypes
<1>5. CASE rest[c] = <<>>
  BY <1>1, <1>5 DEF NextBlock, ClientTypes, QueuesOk
<1> QED BY <1>4, <1>5

LEMMA PutAckTypes ==
  ASSUME TypeInv, NEW c \in Client, PutAck(c) \/ PutAckTimesOut(c)
  PROVE  TypeInv'
<1>1. ClientTypes /\ QueuesOk /\ NextBlock(c) /\ UNCHANGED <<need, done, dir, told>>
  BY TypeParts DEF PutAck, PutAckTimesOut
<1>2. cpc[c] \in Transfers
  BY DEF PutAck, PutAckTimesOut, Receives, TimesOut, Transfers, Waiting
<1>3. /\ HistTypes' /\ ServerTypes' /\ ServerOk'
      /\ cfile' = cfile /\ cmd' = cmd /\ entered' = entered /\ lost' = lost
      /\ faults' = faults \/ faults' = faults + 1
  <2>1. Keeps \/ TimesOut(c, "put_ack")
    BY DEF PutAck, PutAckTimesOut
  <2> QED BY <2>1, KeepsTypes, TimesOutTypes
<1>4. cq' \in [Client -> Seq(ToClients)]
  <2>1. (cq[c] # <<>> /\ Took(c)) \/ cq' = cq
    BY DEF PutAck, PutAckTimesOut, Receives
  <2> QED BY <1>1, <2>1, ClientTakes DEF QueuesOk
<1>5. PICK state \in {"put_ack", "put_final"} : WaitIn(c, state)
  BY <1>1, NextBlockTypes
<1>6. ClientTypes'
  BY <1>1, <1>3, <1>5, NextBlockTypes, MoveTypes DEF ClientTypes, Waiting
<1>7. ClientsOk'
  <2>1. cpc'[c] = state /\ \A d \in Client \ {c} : cpc'[d] = cpc[d]
    BY <1>1, <1>5 DEF WaitIn, ClientTypes
  <2> QED BY <1>1, <1>2, <1>3, <2>1, StaysOk
<1> QED BY <1>1, <1>3, <1>4, <1>6, <1>7, NextBlockTypes, TypePartsNext

LEMMA RepliedTypes ==
  ASSUME TypeInv, NEW c \in Client, Replied(c) \/ Exited(c) \/ ReplyTimesOut(c)
  PROVE  TypeInv'
<1>1. /\ ClientTypes /\ QueuesOk /\ UNCHANGED <<need, done, rest, dir, sq>>
  BY TypeParts DEF Replied, Exited, ReplyTimesOut
<1>2. /\ HistTypes' /\ ServerTypes' /\ ServerOk'
      /\ cfile' = cfile /\ cmd' = cmd /\ entered' = entered /\ lost' = lost
      /\ faults' = faults \/ faults' = faults + 1
  <2>1. Keeps \/ TimesOut(c, "put_final") \/ TimesOut(c, "reply")
    BY DEF Replied, Exited, ReplyTimesOut
  <2> QED BY <2>1, KeepsTypes, TimesOutTypes
<1>3. \/ \E what \in Told : Tells(c, what)
      \/ cpc' = [cpc EXCEPT ![c] = "gone"] /\ UNCHANGED <<ctimer, told>>
  <2>1. CASE Replied(c)
    <3>1. cq[c] # <<>> /\ Tells(c, Got(c).t)
      BY <2>1 DEF Replied, Receives
    <3> QED BY <1>1, <3>1, ClientTakes DEF ToClients
  <2> QED BY <2>1 DEF Exited, ReplyTimesOut, Told
<1>4. cq' \in [Client -> Seq(ToClients)]
  <2>1. (cq[c] # <<>> /\ Took(c)) \/ cq' = cq \/ cq' = [cq EXCEPT ![c] = <<>>]
    BY DEF Replied, Exited, ReplyTimesOut, Receives
  <2>2. CASE cq' = [cq EXCEPT ![c] = <<>>]
    BY <1>1, <2>2 DEF QueuesOk
  <2> QED BY <1>1, <2>1, <2>2, ClientTakes DEF QueuesOk
<1>5. ClientTypes'
  BY <1>1, <1>2, <1>3, MoveTypes DEF ClientTypes
<1>6. ClientsOk'
  <2>1. cpc'[c] \in {"prompt", "gone"} /\ \A d \in Client \ {c} : cpc'[d] = cpc[d]
    BY <1>1, <1>3 DEF Tells, ClientTypes
  <2> QED BY <1>1, <1>2, <2>1, StaysOk DEF Transfers, Waiting
<1> QED BY <1>1, <1>2, <1>4, <1>5, <1>6, TypePartsNext DEF QueuesOk

(* --------------------------- types: the server ------------------------ *)

LEMMA ClientsIdle ==
  ASSUME TypeInv, UNCHANGED client, UNCHANGED hist
  PROVE  ClientTypes' /\ ClientsOk' /\ HistTypes'
<1>1. ClientTypes /\ ClientsOk /\ HistTypes
  BY TypeParts
<1>2. ClientTypes'
  BY <1>1 DEF client, transfer, ClientTypes
<1>3. ClientsOk'
  BY <1>1 DEF client, transfer, hist, ClientsOk, ClientOk
<1> QED BY <1>2, <1>3, HistSame

LEMMA TakesTypes ==
  ASSUME TypeInv, NEW state, Takes(state)
  PROVE  /\ ClientTypes' /\ ClientsOk' /\ HistTypes' /\ sq' \in Seq(Sent)
         /\ peer' \in Client /\ From \in Client /\ Here \in ToServers
         /\ Here \in Datagram /\ Here.bytes \in Data /\ Number(Here) \in Nat
<1>1. QueuesOk /\ sq # <<>> /\ sq' = Tail(sq) /\ peer' = From
  BY TypeParts DEF Takes
<1>2. ClientTypes' /\ ClientsOk' /\ HistTypes'
  BY ClientsIdle DEF Takes
<1>3. /\ Tail(sq) \in Seq(Sent) /\ From \in Client /\ Here \in ToServers /\ Here \in Datagram
  BY <1>1, ServerTakes
<1> QED BY <1>1, <1>2, <1>3, DatagramIs

\* The server's own variables when it goes on to state.
LEMMA GotoTypes ==
  ASSUME TypeInv, NEW state \in InPut \cup {"top", "get_ack"}, Goto(state)
  PROVE  spc' = state /\ spc' \in InPut \cup {"top", "get_ack", "dead"} /\ stimer' \in 0..STimeout
BY DEF Goto, STimeout

LEMMA ForgetsTypes ==
  ASSUME Forgets
  PROVE  sfile' \in File \cup {NoOne} /\ sneed' \in Nat /\ sdone' \in Nat /\ srest' \in Data
BY DataIs DEF Forgets

LEMMA ServeGetTypes ==
  ASSUME TypeInv, ServeGet \/ ServeGetNoFile \/ ServeAck
  PROVE  TypeInv'
<1>1. ServerTypes /\ QueuesOk /\ \E state : Takes(state)
  BY TypeParts DEF ServeGet, ServeGetNoFile, ServeAck
<1>2. /\ ClientTypes' /\ ClientsOk' /\ HistTypes' /\ sq' \in Seq(Sent)
      /\ peer' \in Client /\ From \in Client /\ Here \in ToServers
  BY <1>1, TakesTypes
<1>3. CASE ServeGet
  <2>1. Here.file \in File
    BY <1>2, <1>3 DEF ServeGet, ToServers
  <2>2. disk[Here.file] \in Data
    BY <1>1, <1>3, <2>1 DEF ServeGet, ServerTypes
  <2>3. /\ AfterBlock(disk[Here.file]) \in Data /\ Opening(disk[Here.file]) \in Seq(ToClients)
    BY <2>2, BlocksAre, OpeningIs
  <2>4. PICK state \in {"top", "get_ack"} : Goto(state)
    BY <1>3 DEF ServeGet
  <2>5. cq' \in [Client -> Seq(ToClients)]
    BY <1>1, <1>2, <1>3, <2>3, SendToClient DEF ServeGet
  <2>6. ServerTypes'
    BY <1>1, <1>2, <1>3, <2>3, <2>4, GotoTypes DEF ServeGet, ServerTypes
  <2>7. ServerOk'
    BY <2>4, GotoTypes DEF ServerOk, InPut
  <2> QED BY <1>2, <2>5, <2>6, <2>7, TypePartsNext
<1>4. CASE ServeGetNoFile
  <2>1. <<Msg("no_file")>> \in Seq(ToClients)
    BY MessagesAre
  <2>2. cq' \in [Client -> Seq(ToClients)]
    BY <1>1, <1>2, <1>4, <2>1, SendToClient DEF ServeGetNoFile
  <2>3. ServerTypes' /\ ServerOk'
    BY <1>1, <1>2, <1>4, TypeParts DEF ServeGetNoFile, ServerTypes, ServerOk
  <2> QED BY <1>2, <2>2, <2>3, TypePartsNext
<1>5. CASE ServeAck
  <2>1. spc = "get_ack" /\ FirstBlock(srest) \in Data /\ AfterBlock(srest) \in Data
    BY <1>1, <1>5, BlocksAre DEF ServeAck, Takes, ServerTypes
  <2>2. CASE srest # <<>>
    <3>1. <<Block(FirstBlock(srest))>> \in Seq(ToClients)
      BY <2>1, MessagesAre
    <3>2. cq' \in [Client -> Seq(ToClients)]
      BY <1>1, <1>2, <1>5, <2>2, <3>1, SendToClient DEF ServeAck
    <3>3. ServerTypes' /\ ServerOk'
      BY <1>1, <1>2, <1>5, <2>1, <2>2, TypeParts DEF ServeAck, ServerTypes, ServerOk
    <3> QED BY <1>2, <3>2, <3>3, TypePartsNext
  <2>3. CASE srest = <<>>
    <3>1. Goto("top") /\ cq' = cq /\ srest' = srest
      BY <1>5, <2>3 DEF ServeAck
    <3>2. ServerTypes' /\ ServerOk'
      BY <1>1, <1>2, <1>5, <3>1, GotoTypes DEF ServeAck, ServerTypes, ServerOk, InPut
    <3> QED BY <1>1, <1>2, <3>1, <3>2, TypePartsNext DEF QueuesOk
  <2> QED BY <2>2, <2>3
<1> QED BY <1>3, <1>4, <1>5

\* The server opens sfile and waits for its data.
LEMMA ExpectTypes ==
  ASSUME TypeInv, NEW n \in Nat, Expect(n), spc \in InPut, peer' = peer
  PROVE  ServerTypes' /\ ServerOk' /\ cq' = cq
<1>1. ServerTypes /\ sfile \in File /\ <<>> \in Data
  BY TypeParts, DataIs DEF ServerOk
<1>2. PICK state \in {"put_small", "put_large"} : Goto(state)
  BY DEF Expect
<1>3. /\ disk' = [disk EXCEPT ![sfile] = <<>>] /\ sneed' = n /\ sdone' = 0
      /\ sfile' = sfile /\ srest' = srest /\ cq' = cq
  BY DEF Expect
<1>4. disk' \in [File -> Data \cup {Absent}] /\ disk'[sfile] # Absent
  BY <1>1, <1>3, DataIs DEF ServerTypes
<1>5. spc' = state /\ spc' \in InPut \cup {"top", "get_ack", "dead"} /\ stimer' \in 0..STimeout
  BY <1>2, GotoTypes DEF InPut
<1> QED BY <1>1, <1>3, <1>4, <1>5 DEF ServerTypes, ServerOk

\* A put ends: the file is as it is, or has data.
LEMMA EndsTypes ==
  ASSUME TypeInv, Forgets, \/ Goto("top")
                           \/ spc' = "dead" /\ stimer' = 0,
         \/ disk' = disk
         \/ spc \in InPut /\ \E data \in Data : disk' = [disk EXCEPT ![sfile] = data],
         peer' \in Client \cup {NoOne}
  PROVE  ServerTypes' /\ ServerOk'
<1>1. ServerTypes /\ (spc \in InPut => sfile \in File)
  BY TypeParts DEF ServerOk
<1>2. disk' \in [File -> Data \cup {Absent}]
  BY <1>1 DEF ServerTypes
<1>3. spc' \in {"top", "dead"} /\ stimer' \in 0..STimeout
  BY DEF Goto, STimeout, InPut
<1> QED BY <1>2, <1>3, ForgetsTypes DEF ServerTypes, ServerOk, InPut

LEMMA ServePutTypes ==
  ASSUME TypeInv, ServePut \/ ServePutSize \/ ServePutNoFile
  PROVE  TypeInv'
<1>1. ServerTypes /\ QueuesOk /\ cq' = cq /\ cq \in [Client -> Seq(ToClients)]
  BY TypeParts DEF ServePut, ServePutSize, ServePutNoFile, Expect, QueuesOk
<1>2. CASE ServePut
  <2>1. /\ ClientTypes' /\ ClientsOk' /\ HistTypes' /\ sq' \in Seq(Sent)
        /\ peer' \in Client /\ Here \in ToServers
    BY <1>2, TakesTypes DEF ServePut
  <2>2. Here.file \in File
    BY <1>2, <2>1 DEF ServePut, ToServers
  <2>3. spc' = "put_size" /\ stimer' \in 0..STimeout
    BY <1>2 DEF ServePut, Goto, STimeout
  <2>4. ServerTypes' /\ ServerOk'
    BY <1>1, <1>2, <2>1, <2>2, <2>3 DEF ServePut, ServerTypes, ServerOk, InPut
  <2> QED BY <1>1, <2>1, <2>4, TypePartsNext
<1>3. CASE ServePutSize \/ ServePutNoFile
  <2>1. /\ spc = "put_size" /\ spc \in InPut /\ sq # <<>> /\ sq' = Tail(sq) /\ peer' = peer
        /\ UNCHANGED <<client, hist>>
    BY <1>3 DEF ServePutSize, ServePutNoFile, InPut
  <2>2. /\ ClientTypes' /\ ClientsOk' /\ HistTypes' /\ sq' \in Seq(Sent)
        /\ Here \in Datagram
    BY <1>1, <2>1, ClientsIdle, ServerTakes
  <2>3. CASE ServePutSize
    <3>1. Number(Here) \in Nat /\ Expect(Number(Here))
      BY <2>2, <2>3, DatagramIs DEF ServePutSize
    <3> QED BY <1>1, <2>1, <2>2, <3>1, ExpectTypes, TypePartsNext
  <2>4. CASE ServePutNoFile
    <3>1. ServerTypes' /\ ServerOk'
      BY <1>1, <2>1, <2>4, EndsTypes DEF ServePutNoFile, ServerTypes
    <3> QED BY <1>1, <2>2, <3>1, TypePartsNext
  <2> QED BY <1>3, <2>3, <2>4
<1> QED BY <1>2, <1>3

LEMMA ServeDataTypes ==
  ASSUME TypeInv, ServePutSmall \/ ServePutLarge
  PROVE  TypeInv'
<1>1. ServerTypes /\ QueuesOk /\ spc \in InPut /\ \E state : Takes(state)
  BY TypeParts DEF ServePutSmall, ServePutLarge, Takes, InPut
<1>2. /\ ClientTypes' /\ ClientsOk' /\ HistTypes' /\ sq' \in Seq(Sent)
      /\ peer' \in Client /\ From \in Client /\ Here.bytes \in Data
  BY <1>1, TakesTypes
<1>3. Ack \in ToClients /\ FullMsg("put_successful") \in ToClients
  BY MessagesAre DEF Told
<1>4. CASE ServePutSmall
  <2>1. <<FullMsg("put_successful")>> \in Seq(ToClients)
    BY <1>3
  <2>2. cq' \in [Client -> Seq(ToClients)]
    BY <1>1, <1>2, <1>4, <2>1, SendToClient DEF ServePutSmall
  <2>3. ServerTypes' /\ ServerOk'
    BY <1>1, <1>2, <1>4, EndsTypes DEF ServePutSmall
  <2> QED BY <1>2, <2>2, <2>3, TypePartsNext
<1>5. CASE ServePutLarge
  <2>1. spc = "put_large" /\ sfile \in File /\ disk[sfile] \in Data
    BY <1>1, <1>5, TypeParts DEF ServePutLarge, Takes, ServerOk, ServerTypes
  <2>2. disk[sfile] \o Here.bytes \in Data /\ Len(Here.bytes) \in Nat
    BY <1>2, <2>1, DataIs
  <2>3. disk' = [disk EXCEPT ![sfile] = disk[sfile] \o Here.bytes]
    BY <1>5 DEF ServePutLarge
  <2>4. CASE sdone + Len(Here.bytes) < sneed
    <3>1. /\ ToClient(From, <<Ack>>) /\ sdone' = sdone + Len(Here.bytes) /\ Goto("put_large")
          /\ UNCHANGED <<sfile, sneed, srest>>
      BY <1>5, <2>4 DEF ServePutLarge
    <3>2. <<Ack>> \in Seq(ToClients)
      BY <1>3
    <3>3. cq' \in [Client -> Seq(ToClients)]
      BY <1>1, <1>2, <3>1, <3>2, SendToClient
    <3>4. disk' \in [File -> Data \cup {Absent}] /\ disk'[sfile] # Absent
      BY <1>1, <2>1, <2>2, <2>3, DataIs DEF ServerTypes
    <3>5. spc' = "put_large" /\ stimer' \in 0..STimeout
      BY <3>1 DEF Goto, STimeout
    <3>6. ServerTypes' /\ ServerOk'
      BY <1>1, <1>2, <2>1, <2>2, <3>1, <3>4, <3>5 DEF ServerTypes, ServerOk, InPut
    <3> QED BY <1>2, <3>3, <3>6, TypePartsNext
  <2>5. CASE ~(sdone + Len(Here.bytes) < sneed)
    <3>1. ToClient(From, <<Ack, FullMsg("put_successful")>>) /\ Goto("top") /\ Forgets
      BY <1>5, <2>5 DEF ServePutLarge
    <3>2. <<Ack, FullMsg("put_successful")>> \in Seq(ToClients)
      BY <1>3
    <3>3. cq' \in [Client -> Seq(ToClients)]
      BY <1>1, <1>2, <3>1, <3>2, SendToClient
    <3>4. ServerTypes' /\ ServerOk'
      BY <1>1, <1>2, <2>2, <2>3, <3>1, EndsTypes
    <3> QED BY <1>2, <3>3, <3>4, TypePartsNext
  <2> QED BY <2>4, <2>5
<1> QED BY <1>4, <1>5

LEMMA ServeRestTypes ==
  ASSUME TypeInv, ServeDelete \/ ServeListOrExit \/ ServeOther \/ ServeEmpty
  PROVE  TypeInv'
<1>1. ServerTypes /\ QueuesOk /\ ServerOk /\ spc = "top"
  BY TypeParts DEF ServeDelete, ServeListOrExit, ServeOther, ServeEmpty, Takes
<1>2. CASE ServeDelete
  <2>1. /\ ClientTypes' /\ ClientsOk' /\ HistTypes' /\ sq' \in Seq(Sent)
        /\ peer' \in Client /\ From \in Client /\ Here \in ToServers
    BY <1>2, TakesTypes DEF ServeDelete
  <2>2. Here.file \in File
    BY <1>2, <2>1 DEF ServeDelete, ToServers
  <2>3. \E t \in {"delete_failed", "delete_successful"} : ToClient(From, <<FullMsg(t)>>)
    BY <1>2 DEF ServeDelete
  <2>4. \A t \in {"delete_failed", "delete_successful"} : FullMsg(t) \in ToClients
    BY MessagesAre DEF Told
  <2>5. \A t \in {"delete_failed", "delete_successful"} : <<FullMsg(t)>> \in Seq(ToClients)
    BY <2>4
  <2>6. cq' \in [Client -> Seq(ToClients)]
    BY <1>1, <2>1, <2>3, <2>5, SendToClient
  <2>7. disk' \in [File -> Data \cup {Absent}]
    BY <1>1, <1>2, <2>2 DEF ServeDelete, ServerTypes
  <2>8. ServerTypes' /\ ServerOk'
    BY <1>1, <1>2, <2>1, <2>7 DEF ServeDelete, ServerTypes, ServerOk, InPut
  <2> QED BY <2>1, <2>6, <2>8, TypePartsNext
<1>3. CASE ServeListOrExit
  <2>1. /\ ClientTypes' /\ ClientsOk' /\ HistTypes' /\ sq' \in Seq(Sent)
        /\ peer' \in Client /\ From \in Client
    BY <1>3, TakesTypes DEF ServeListOrExit
  <2>2. PICK t \in {"ls", "exit"} : ToClient(From, <<FullMsg(t)>>)
    BY <1>3 DEF ServeListOrExit
  <2>3. FullMsg(t) \in ToClients
    BY MessagesAre DEF Told
  <2>4. <<FullMsg(t)>> \in Seq(ToClients)
    BY <2>3
  <2>5. cq' \in [Client -> Seq(ToClients)]
    BY <1>1, <2>1, <2>2, <2>4, SendToClient
  <2>6. ServerTypes' /\ ServerOk'
    BY <1>1, <1>3, <2>1 DEF ServeListOrExit, ServerTypes, ServerOk
  <2> QED BY <2>1, <2>5, <2>6, TypePartsNext
<1>4. CASE ServeOther
  <2>1. /\ ClientTypes' /\ ClientsOk' /\ HistTypes' /\ sq' \in Seq(Sent) /\ peer' \in Client
    BY <1>4, TakesTypes DEF ServeOther
  <2>2. ServerTypes' /\ ServerOk' /\ cq' = cq
    BY <1>1, <1>4, <2>1 DEF ServeOther, ServerTypes, ServerOk
  <2> QED BY <1>1, <2>1, <2>2, TypePartsNext DEF QueuesOk
<1>5. CASE ServeEmpty
  <2>1. ClientTypes' /\ ClientsOk' /\ HistTypes'
    BY <1>5, ClientsIdle DEF ServeEmpty
  <2>2. ServerTypes' /\ ServerOk'
    BY <1>1, <1>5, EndsTypes DEF ServeEmpty, Die, ServerTypes
  <2>3. sq' = <<>> /\ cq' = cq
    BY <1>5 DEF ServeEmpty, Die
  <2> QED BY <1>1, <2>1, <2>2, <2>3, TypePartsNext DEF QueuesOk
<1> QED BY <1>2, <1>3, <1>4, <1>5

LEMMA PutTimeTypes ==
  ASSUME TypeInv, PutSizeTimesOut \/ PutSmallTimesOut \/ PutLargeTimesOut
  PROVE  TypeInv'
<1>1. /\ ServerTypes /\ QueuesOk /\ HistTypes /\ ClientTypes /\ ClientsOk
      /\ spc \in InPut /\ peer' = peer /\ peer \in Client \cup {NoOne}
      /\ \E state : ServerTimesOut(state)
  BY TypeParts DEF PutSizeTimesOut, PutSmallTimesOut, PutLargeTimesOut, ServerTimesOut, InPut,
       ServerTypes
<1>2. ClientTypes' /\ ClientsOk' /\ HistTypes'
  <2>1. client' = client /\ lost' = lost /\ clean' = clean
    BY <1>1 DEF ServerTimesOut
  <2>2. ClientTypes'
    BY <1>1, <2>1 DEF client, transfer, ClientTypes
  <2>3. faults' = faults \/ (faults' = faults + 1 /\ faults < MaxFault)
    BY <1>1 DEF ServerTimesOut
  <2>4. ClientsOk'
    BY <1>1, <2>1, <2>3 DEF client, transfer, HistTypes, ClientsOk, ClientOk
  <2>5. odd' = odd \/ odd' = [d \in Client |-> TRUE]
    BY <1>1 DEF ServerTimesOut
  <2>6. odd' \in [Client -> BOOLEAN]
    BY <1>1, <2>5 DEF HistTypes
  <2>7. faults' \in 0..MaxFault
    BY <1>1, <2>3, UftpAssumption DEF HistTypes
  <2> QED BY <1>1, <2>1, <2>2, <2>4, <2>6, <2>7 DEF HistTypes
<1>3. CASE PutSizeTimesOut
  <2>1. Expect(0) /\ sq' = sq
    BY <1>3 DEF PutSizeTimesOut
  <2>2. ServerTypes' /\ ServerOk' /\ cq' = cq
    BY <1>1, <2>1, ExpectTypes
  <2> QED BY <1>1, <1>2, <2>1, <2>2, TypePartsNext DEF QueuesOk
<1>4. FullMsg("put_successful") \in ToClients
  BY MessagesAre DEF Told
<1>5. <<FullMsg("put_successful")>> \in Seq(ToClients)
  BY <1>4
<1>6. CASE PutSmallTimesOut
  <2>1. /\ disk' = [disk EXCEPT ![sfile] = <<Junk>>] /\ Forgets
        /\ \/ ToClient(peer, <<FullMsg("put_successful")>>) /\ Goto("top") /\ sq' = sq
           \/ spc' = "dead" /\ stimer' = 0 /\ sq' = <<>> /\ cq' = cq
    BY <1>6 DEF PutSmallTimesOut, Die
  <2>2. ServerTypes' /\ ServerOk'
    BY <1>1, <2>1, EndsTypes, DataIs
  <2>3. cq' \in [Client -> Seq(ToClients)]
    BY <1>1, <1>5, <2>1, SendToClient DEF QueuesOk
  <2>4. sq' \in Seq(Sent)
    <3>1. sq \in Seq(Sent) /\ <<>> \in Seq(Sent) /\ (sq' = sq \/ sq' = <<>>)
      BY <1>1, <2>1 DEF QueuesOk
    <3> QED BY <3>1
  <2> QED BY <1>2, <2>2, <2>3, <2>4, TypePartsNext
<1>7. CASE PutLargeTimesOut
  <2>1. /\ ToClient(peer, <<FullMsg("put_successful")>>) /\ Goto("top") /\ Forgets
        /\ sq' = sq /\ disk' = disk
    BY <1>7 DEF PutLargeTimesOut
  <2>2. ServerTypes' /\ ServerOk'
    BY <1>1, <2>1, EndsTypes
  <2>3. cq' \in [Client -> Seq(ToClients)]
    BY <1>1, <1>5, <2>1, SendToClient
  <2> QED BY <1>1, <1>2, <2>1, <2>2, <2>3, TypePartsNext DEF QueuesOk
<1> QED BY <1>3, <1>6, <1>7

(* --------------------------- types: the network ----------------------- *)

\* What UDP may make of a queue has nothing in it that was not sent.
LEMMA QueueOps ==
  ASSUME NEW S, NEW q \in Seq(S), NEW i \in DOMAIN q
  PROVE  /\ Drop(q, i) \in Seq(S) /\ Append(q, q[i]) \in Seq(S)
         /\ Len(q) - 1 >= i => Swap(q, i) \in Seq(S)
<1>1. i \in 1..Len(q) /\ Len(q) \in Nat /\ q[i] \in S
  OBVIOUS
<1>2. SubSeq(q, 1, i - 1) \in Seq(S) /\ SubSeq(q, i + 1, Len(q)) \in Seq(S)
  BY <1>1
<1>3. Drop(q, i) \in Seq(S)
  BY <1>2 DEF Drop
<1>4. ASSUME Len(q) - 1 >= i PROVE Swap(q, i) \in Seq(S)
  <2>1. q[i+1] \in S
    BY <1>1, <1>4
  <2> DEFINE p == [q EXCEPT ![i] = q[i+1]]
  <2>2. p \in Seq(S) /\ Len(p) = Len(q) /\ i + 1 \in 1..Len(p)
    BY <1>1, <1>4, <2>1, ExceptSeq
  <2>3. Swap(q, i) = [p EXCEPT ![i+1] = q[i]]
    BY DEF Swap
  <2> HIDE DEF p
  <2> QED BY <1>1, <2>2, <2>3, ExceptSeq
<1> QED BY <1>1, <1>3, <1>4

LEMMA NetworkTypes ==
  ASSUME TypeInv, Lose \/ Reorder \/ Duplicate
  PROVE  TypeInv'
<1>1. /\ ClientTypes /\ ClientsOk /\ ServerTypes /\ ServerOk /\ HistTypes /\ QueuesOk
      /\ UNCHANGED <<client, server, clean>> /\ faults' = faults + 1 /\ faults < MaxFault
  BY TypeParts DEF Lose, Reorder, Duplicate, Fault
<1>2. lost' = lost \/ lost' = [c \in Client |-> lost[c] + 1]
  BY DEF Lose, Reorder, Duplicate, Odd
<1>3. ClientTypes'
  BY <1>1 DEF client, transfer, ClientTypes
<1>4. ServerTypes' /\ ServerOk'
  BY <1>1, ServerIdle
<1>5. ClientsOk'
  BY <1>1, <1>2 DEF client, transfer, ClientsOk, ClientOk, HistTypes
<1>6. HistTypes'
  <2>1. odd' = odd \/ odd' = [d \in Client |-> TRUE]
    BY DEF Lose, Reorder, Duplicate, Odd
  <2>2. odd' \in [Client -> BOOLEAN]
    BY <1>1, <2>1 DEF HistTypes
  <2>3. faults' \in 0..MaxFault /\ lost' \in [Client -> Nat]
    BY <1>1, <1>2, UftpAssumption DEF HistTypes
  <2> QED BY <1>1, <2>2, <2>3 DEF HistTypes
<1>7. sq' \in Seq(Sent)
  <2>1. \/ sq' = sq
        \/ \E i \in DOMAIN sq : sq' = Drop(sq, i) \/ sq' = Append(sq, sq[i])
        \/ \E i \in DOMAIN sq : Len(sq) - 1 >= i /\ sq' = Swap(sq, i)
    BY DEF Lose, Reorder, Duplicate, OnAQueue
  <2> QED BY <1>1, <2>1, QueueOps DEF QueuesOk
<1>8. cq' \in [Client -> Seq(ToClients)]
  <2>1. CASE cq' = cq
    BY <1>1, <2>1 DEF QueuesOk
  <2>2. ASSUME NEW c \in Client, NEW i \in DOMAIN cq[c],
               \/ cq' = [cq EXCEPT ![c] = Drop(cq[c], i)]
               \/ cq' = [cq EXCEPT ![c] = Append(cq[c], cq[c][i])]
               \/ Len(cq[c]) - 1 >= i /\ cq' = [cq EXCEPT ![c] = Swap(cq[c], i)]
        PROVE  cq' \in [Client -> Seq(ToClients)]
    <3>1. cq \in [Client -> Seq(ToClients)] /\ cq[c] \in Seq(ToClients)
      BY <1>1 DEF QueuesOk
    <3>2. /\ Drop(cq[c], i) \in Seq(ToClients) /\ Append(cq[c], cq[c][i]) \in Seq(ToClients)
          /\ Len(cq[c]) - 1 >= i => Swap(cq[c], i) \in Seq(ToClients)
      BY <3>1, QueueOps
    <3> QED BY <2>2, <3>1, <3>2
  <2>3. \/ cq' = cq
        \/ \E c \in Client : \E i \in DOMAIN cq[c] :
             \/ cq' = [cq EXCEPT ![c] = Drop(cq[c], i)]
             \/ cq' = [cq EXCEPT ![c] = Append(cq[c], cq[c][i])]
             \/ Len(cq[c]) - 1 >= i /\ cq' = [cq EXCEPT ![c] = Swap(cq[c], i)]
    BY DEF Lose, Reorder, Duplicate, OnAQueue
  <2> QED BY <2>1, <2>2, <2>3
<1> QED BY <1>3, <1>4, <1>5, <1>6, <1>7, <1>8, TypePartsNext

LEMMA TickTypes ==
  ASSUME TypeInv, Tick
  PROVE  TypeInv'
<1>1. /\ ClientTypes /\ ClientsOk /\ ServerTypes /\ ServerOk /\ HistTypes /\ QueuesOk
      /\ UNCHANGED <<cpc, transfer, dir, told, entered, spc, sfile, sneed, sdone, srest, peer,
                     disk, sq, cq, clean, lost>>
  BY TypeParts DEF Tick
<1>2. ctimer' \in [Client -> 0..CTimeout]
  BY <1>1 DEF Tick, ClientTypes, CTimeout
<1>3. ClientTypes'
  BY <1>1, <1>2 DEF transfer, ClientTypes
<1>4. stimer' \in 0..STimeout
  BY <1>1 DEF Tick, ServerTypes, STimeout
<1>5. ServerTypes' /\ ServerOk'
  BY <1>1, <1>4 DEF ServerTypes, ServerOk
<1>6. faults' = faults \/ (faults' = faults + 1 /\ faults < MaxFault)
  BY DEF Tick
<1>7. ClientsOk'
  BY <1>1, <1>6 DEF transfer, ClientsOk, ClientOk, HistTypes
<1>8. odd' = odd \/ odd' = [d \in Client |-> TRUE]
  BY DEF Tick
<1>9. odd' \in [Client -> BOOLEAN]
  BY <1>1, <1>8 DEF HistTypes
<1>10. faults' \in 0..MaxFault
  BY <1>1, <1>6, UftpAssumption DEF HistTypes
<1>11. HistTypes'
  BY <1>1, <1>9, <1>10 DEF HistTypes
<1> QED BY <1>1, <1>3, <1>5, <1>7, <1>11, TypePartsNext DEF QueuesOk

LEMMA TypeStep == TypeInv /\ [Next]_vars => TypeInv'
<1> SUFFICES ASSUME TypeInv, [Next]_vars PROVE TypeInv'
  OBVIOUS
<1>1. CASE UNCHANGED vars
  <2>1. UNCHANGED client /\ UNCHANGED server /\ UNCHANGED hist /\ sq' = sq /\ cq' = cq
    BY <1>1 DEF vars
  <2>2. QueuesOk
    BY TypeParts
  <2> QED BY <2>1, <2>2, ClientsIdle, ServerIdle, TypePartsNext DEF QueuesOk
<1>2. ASSUME NEW c \in Client, Enter(c) PROVE TypeInv'
  BY <1>2, EnterTypes
<1>3. ASSUME NEW c \in Client, ClientStep(c) PROVE TypeInv'
  BY <1>3, GetTypes, GetTimeTypes, PutAckTypes, RepliedTypes DEF ClientStep
<1>4. CASE ServerStep
  BY <1>4, ServeGetTypes, ServePutTypes, ServeDataTypes, ServeRestTypes, PutTimeTypes
     DEF ServerStep
<1> QED BY <1>1, <1>2, <1>3, <1>4, NetworkTypes, TickTypes DEF Next

LEMMA TypeInvariant == Spec => []TypeInv
BY TypeInit, TypeStep, PTL DEF Spec

\* Every variable keeps its type: no program writes to a file it has not
\* opened, and no client is told what it cannot print.
THEOREM TypesHold == Spec => []TypeOK
<1>1. TypeInv => TypeOK
  BY DEF TypeInv
<1> QED BY <1>1, TypeInvariant, PTL

(* ------------------- what is in the server's socket -------------------- *)

NoAck(q) == \A i \in 2..Len(q) : q[i].d.t # "ack"

LEMMA EmptyOrNot ==
  ASSUME NEW S, NEW q \in Seq(S)
  PROVE  /\ q = <<>> <=> Len(q) = 0
         /\ q # <<>> => Head(q) = q[1] /\ Len(q) >= 1 /\ Head(q) \in S /\ Tail(q) \in Seq(S)
OBVIOUS

\* Follows is about what comes behind only.
LEMMA FollowsToo ==
  ASSUME NEW q, NEW r, NEW i \in Nat, NEW j \in Nat, Len(q) \in Nat, Len(r) \in Nat,
         Follows(q, j), r[i] = q[j], j < Len(q) => r[i+1] = q[j+1],
         Len(r) - i = Len(q) - j
  PROVE  Follows(r, i)
<1>1. /\ j < Len(q) <=> i < Len(r)
      /\ j = Len(q) <=> i = Len(r)
      /\ j + 1 = Len(q) <=> i + 1 = Len(r)
      /\ j + 1 = Len(q) => j < Len(q)
  OBVIOUS
<1> QED BY <1>1 DEF Follows

\* The server takes the first datagram.
LEMMA OrderlyTail ==
  ASSUME NEW q \in Seq(Sent), q # <<>>, Orderly(q), NoAck(q)
  PROVE  /\ Orderly(Tail(q)) /\ NoAck(Tail(q)) /\ Len(Tail(q)) = Len(q) - 1
         /\ Follows(q, 1) /\ Len(q) >= 1 /\ Head(q) = q[1]
         /\ Len(q) = 1 => Tail(q) = <<>> /\ Last(q) = Head(q).d
         /\ Len(q) > 1 => /\ Tail(q) # <<>> /\ Last(Tail(q)) = Last(q)
                          /\ Head(Tail(q)) = q[2]
         /\ Len(q) > 2 => Tail(q)[Len(Tail(q)) - 1] = q[Len(q) - 1]
         /\ \A i \in 1..Len(Tail(q)) : Tail(q)[i] = q[i+1]
<1>1. /\ Len(q) \in Nat /\ Len(q) >= 1 /\ Len(Tail(q)) = Len(q) - 1 /\ Head(q) = q[1]
      /\ \A i \in 1..Len(Tail(q)) : Tail(q)[i] = q[i+1]
      /\ Tail(q) \in Seq(Sent)
  OBVIOUS
<1>2. ASSUME NEW i \in 1..Len(Tail(q)) PROVE Follows(Tail(q), i)
  <2>1. i + 1 \in 1..Len(q) /\ Follows(q, i + 1) /\ Tail(q)[i] = q[i+1]
    BY <1>1 DEF Orderly
  <2>2. i + 1 < Len(q) => Tail(q)[i+1] = q[(i+1)+1]
    BY <1>1
  <2>3. Len(Tail(q)) - i = Len(q) - (i + 1) /\ i \in Nat /\ i + 1 \in Nat /\ Len(Tail(q)) \in Nat
    BY <1>1
  <2> QED BY <1>1, <2>1, <2>2, <2>3, FollowsToo
<1>3. NoAck(Tail(q))
  BY <1>1 DEF NoAck
<1>4. Len(q) = 1 => Tail(q) = <<>> /\ Last(q) = Head(q).d
  <2>1. Len(q) = 1 => Len(Tail(q)) = 0
    BY <1>1
  <2>2. Tail(q) = <<>> <=> Len(Tail(q)) = 0
    BY <1>1, EmptyOrNot
  <2> QED BY <1>1, <2>1, <2>2 DEF Last
<1>5. Len(q) > 1 => /\ Tail(q) # <<>> /\ Last(Tail(q)) = Last(q)
                    /\ Head(Tail(q)) = q[2]
  <2> SUFFICES ASSUME Len(q) > 1
               PROVE  Tail(q) # <<>> /\ Last(Tail(q)) = Last(q) /\ Head(Tail(q)) = q[2]
    OBVIOUS
  <2>1. Tail(q) # <<>> /\ Head(Tail(q)) = Tail(q)[1]
    <3>1. Len(Tail(q)) # 0
      BY <1>1
    <3> QED BY <1>1, <3>1, EmptyOrNot
  <2>2. Tail(q)[Len(Tail(q))] = q[Len(q)] /\ Tail(q)[1] = q[2]
    BY <1>1
  <2> QED BY <2>1, <2>2 DEF Last
<1>6. Len(q) > 2 => Tail(q)[Len(Tail(q)) - 1] = q[Len(q) - 1]
  BY <1>1
<1>7. Orderly(Tail(q)) /\ Follows(q, 1)
  BY <1>1, <1>2 DEF Orderly
<1> QED BY <1>1, <1>3, <1>4, <1>5, <1>6, <1>7

\* A client sends a command, with what belongs to it, behind what is there.
LEMMA OrderlyAppend ==
  ASSUME NEW q \in Seq(Sent), Orderly(q), NoAck(q),
         q = <<>> \/ Last(q).t \in {"do_not_create", "ack"},
         NEW e \in Seq(Sent), Orderly(e), e # <<>>, \A i \in 1..Len(e) : e[i].d.t # "ack",
         e[1].d.t \in Commands
  PROVE  /\ Orderly(q \o e) /\ NoAck(q \o e) /\ q \o e # <<>> /\ Last(q \o e) = Last(e)
         /\ Head(q \o e) = IF q = <<>> THEN e[1] ELSE Head(q)
         /\ Len(e) > 1 => (q \o e)[Len(q \o e) - 1] = e[Len(e) - 1]
<1>1. /\ Len(q) \in Nat /\ Len(e) \in Nat /\ Len(e) >= 1 /\ Len(q \o e) = Len(q) + Len(e)
      /\ \A i \in 1..Len(q) : (q \o e)[i] = q[i]
      /\ \A i \in 1..Len(e) : (q \o e)[Len(q) + i] = e[i]
      /\ q \o e \in Seq(Sent)
  OBVIOUS
<1>2. ASSUME NEW i \in 1..Len(q \o e) PROVE Follows(q \o e, i)
  <2>1. CASE i > Len(q)
    <3>1. PICK j \in 1..Len(e) : i = Len(q) + j
      <4>1. i - Len(q) \in 1..Len(e) /\ i = Len(q) + (i - Len(q))
        BY <1>1, <2>1
      <4> QED BY <4>1
    <3>2. Follows(e, j) /\ (q \o e)[i] = e[j]
      BY <1>1, <3>1 DEF Orderly
    <3>3. j < Len(e) => (q \o e)[i+1] = e[j+1]
      <4>1. j < Len(e) => j + 1 \in 1..Len(e) /\ i + 1 = Len(q) + (j + 1)
        BY <1>1, <3>1
      <4> QED BY <1>1, <4>1
    <3>4. Len(q \o e) - i = Len(e) - j /\ i \in Nat /\ j \in Nat /\ Len(q \o e) \in Nat
      BY <1>1, <3>1
    <3> QED BY <1>1, <3>2, <3>3, <3>4, FollowsToo
  <2>2. CASE i < Len(q)
    <3>1. i \in 1..Len(q) /\ Follows(q, i) /\ (q \o e)[i] = q[i] /\ (q \o e)[i+1] = q[i+1]
      BY <1>1, <2>2 DEF Orderly
    <3>2. q[i].d.t = "size" => FALSE
      <4>1. ASSUME q[i].d.t = "size" PROVE Last(q).t = "block" /\ q # <<>>
        BY <1>1, <2>2, <3>1, <4>1 DEF Follows, Last
      <4> QED BY <4>1
    <3> QED BY <1>1, <2>2, <3>1, <3>2 DEF Follows, Commands
  <2>3. CASE i = Len(q)
    <3>1. (q \o e)[i] = q[i] /\ Last(q) = q[i].d /\ q # <<>> /\ (q \o e)[i+1] = e[1]
      BY <1>1, <2>3 DEF Last
    <3>2. q[i].d.t \in {"do_not_create", "ack"}
      BY <3>1
    <3> QED BY <1>1, <2>3, <3>1, <3>2 DEF Follows, Commands
  <2> QED BY <1>1, <2>1, <2>2, <2>3
<1>3. NoAck(q \o e)
  <2> SUFFICES ASSUME NEW i \in 2..Len(q \o e) PROVE (q \o e)[i].d.t # "ack"
    BY DEF NoAck
  <2>1. CASE i <= Len(q)
    BY <1>1, <2>1 DEF NoAck
  <2>2. CASE i > Len(q)
    <3>1. i - Len(q) \in 1..Len(e) /\ i = Len(q) + (i - Len(q))
      BY <1>1, <2>2
    <3>2. (q \o e)[i] = e[i - Len(q)]
      BY <1>1, <3>1
    <3> QED BY <3>1, <3>2
  <2> QED BY <1>1, <2>1, <2>2
<1>4. q \o e # <<>> /\ Last(q \o e) = Last(e)
  <2>1. (q \o e)[Len(q) + Len(e)] = e[Len(e)]
    BY <1>1
  <2> QED BY <1>1, <2>1 DEF Last
<1>5. Head(q \o e) = IF q = <<>> THEN e[1] ELSE Head(q)
  <2>1. Head(q \o e) = (q \o e)[1]
    BY <1>1
  <2>2. CASE q = <<>>
    <3>1. Len(q) = 0
      BY <2>2
    <3>2. (q \o e)[1] = e[1]
      BY <1>1, <3>1
    <3> QED BY <2>1, <2>2, <3>2
  <2>3. CASE q # <<>>
    BY <1>1, <2>1, <2>3
  <2> QED BY <2>2, <2>3
<1>6. Len(e) > 1 => (q \o e)[Len(q \o e) - 1] = e[Len(e) - 1]
  <2> SUFFICES ASSUME Len(e) > 1 PROVE (q \o e)[Len(q \o e) - 1] = e[Len(e) - 1]
    OBVIOUS
  <2>1. Len(e) - 1 \in 1..Len(e) /\ Len(q \o e) - 1 = Len(q) + (Len(e) - 1)
    BY <1>1
  <2> QED BY <1>1, <2>1
<1> QED BY <1>2, <1>3, <1>4, <1>5, <1>6 DEF Orderly

LEMMA ElementOfBoth ==
  ASSUME NEW S, NEW q \in Seq(S), NEW e \in Seq(S), NEW i \in 1..Len(q \o e)
  PROVE  \/ \E j \in 1..Len(q) : (q \o e)[i] = q[j]
         \/ \E j \in 1..Len(e) : (q \o e)[i] = e[j]
<1>1. Len(q) \in Nat /\ Len(e) \in Nat /\ Len(q \o e) = Len(q) + Len(e)
  OBVIOUS
<1>2. CASE i <= Len(q)
  <2>1. i \in 1..Len(q) /\ (q \o e)[i] = q[i]
    BY <1>1, <1>2
  <2> QED BY <2>1
<1>3. CASE i > Len(q)
  <2>1. i - Len(q) \in 1..Len(e) /\ (q \o e)[i] = e[i - Len(q)]
    BY <1>1, <1>3
  <2> QED BY <2>1
<1> QED BY <1>1, <1>2, <1>3

(* ------------------------- a client alone: commands -------------------- *)

LEMMA MessageIs ==
  /\ \A t, f : Request(t, f).t = t /\ Request(t, f).file = f /\ Request(t, f).bytes = <<Text>>
  /\ \A t : Msg(t).t = t /\ FullMsg(t).t = t
  /\ \A n : SizeMsg(n).t = "size" /\ SizeMsg(n).n = n
  /\ \A b : Block(b).t = "block" /\ Block(b).bytes = b
  /\ Ack.t = "ack"
BY DEF Request, Msg, FullMsg, SizeMsg, Block, Ack

\* The sequence e is of the datagrams ds of client c.
SentAs(c, ds, e) ==
  Len(e) = Len(ds) /\ \A i \in 1..Len(e) : e[i].from = c /\ e[i].d = ds[i]

LEMMA SentAsIs ==
  ASSUME NEW c, NEW ds, NEW e \in Seq(Sent), SentAs(c, ds, e), Len(ds) \in Nat \ {0}
  PROVE  /\ e # <<>> /\ Len(e) = Len(ds) /\ \A i \in 1..Len(e) : e[i].from = c
         /\ \A i \in 1..Len(ds) : e[i].d = ds[i]
BY EmptyOrNot DEF SentAs

LEMMA Sending ==
  ASSUME TypeInv, NEW c \in Client, NEW ds \in Seq(ToServers), spc # "dead", ToServer(c, ds)
  PROVE  \E e \in Seq(Sent) : sq' = sq \o e /\ SentAs(c, ds, e)
<1> DEFINE e == [i \in DOMAIN ds |-> [from |-> c, d |-> ds[i]]]
<1>1. DOMAIN ds = 1..Len(ds) /\ Len(ds) \in Nat
  OBVIOUS
<1>2. \A i \in 1..Len(ds) : [from |-> c, d |-> ds[i]] \in Sent
  BY DEF Sent
<1>3. e \in Seq(Sent) /\ Len(e) = Len(ds)
  BY <1>1, <1>2
<1>4. \A i \in 1..Len(e) : e[i].from = c /\ e[i].d = ds[i]
  BY <1>1, <1>3
<1>5. sq' = sq \o e
  BY DEF ToServer
<1> HIDE DEF e
<1> QED BY <1>3, <1>4, <1>5 DEF SentAs

\* A client at its prompt, of which all was taken or will be passed over.
Ready(c) == Order(c) /\ cpc[c] = "prompt"

\* With Quiet, whatever came before, nothing is under way.
LEMMA QuietIsReady ==
  ASSUME TypeInv, NEW c \in Client, Quiet, cpc[c] = "prompt"
  PROVE  Ready(c)
<1>1. sq = <<>> /\ spc = "top" /\ \A d \in Client : cq[d] = <<>> /\ cpc[d] \notin Waiting
  BY DEF Quiet
<1>2. Alone(c) /\ Prompt(c) /\ Orderly(sq) /\ HeadOk
  BY <1>1 DEF Alone, Prompt, Orderly, HeadOk, InPut
<1>3. PhaseOk(c)
  BY <1>1 DEF PhaseOk, AtPrompt
<1> QED BY <1>2, <1>3 DEF Ready, Order

\* A command arrives behind what is there.
Arrived(e) == /\ sq' # <<>> /\ Last(sq)' = Last(e)
              /\ Len(e) > 1 => SizeQueued' = e[Len(e) - 1].d.n
LEMMA CommandArrives ==
  ASSUME TypeInv, NEW c \in Client, Ready(c), NEW e \in Seq(Sent), sq' = sq \o e,
         \A i \in 1..Len(e) : e[i].from = c /\ e[i].d.t # "ack",
         Orderly(e), e # <<>>, e[1].d.t \in Commands, UNCHANGED server, cq' = cq,
         \A d \in Client \ {c} : cpc'[d] = cpc[d],
         cpc'[c] \in Waiting => ctimer'[c] = CTimeout
  PROVE  Alone(c)' /\ Prompt(c)' /\ Orderly(sq)' /\ HeadOk' /\ Arrived(e)
<1>1. /\ QueuesOk /\ Alone(c) /\ Prompt(c) /\ Orderly(sq) /\ HeadOk /\ PhaseOk(c)
      /\ AtPrompt(c)
  BY TypeParts DEF Ready, Order, PhaseOk
<1>2. sq \in Seq(Sent) /\ NoAck(sq) /\ (sq = <<>> \/ Last(sq).t \in {"do_not_create", "ack"})
  BY <1>1 DEF QueuesOk, HeadOk, NoAck, AtPrompt
<1>3. /\ Orderly(sq \o e) /\ NoAck(sq \o e) /\ sq \o e # <<>> /\ Last(sq \o e) = Last(e)
      /\ Head(sq \o e) = IF sq = <<>> THEN e[1] ELSE Head(sq)
      /\ Len(e) > 1 => (sq \o e)[Len(sq \o e) - 1] = e[Len(e) - 1]
  <2>1. \A i \in 1..Len(e) : e[i].d.t # "ack"
    OBVIOUS
  <2>2. Orderly(sq)
    BY <1>1
  <2> QED BY <1>2, <2>1, <2>2, OrderlyAppend
<1>4. Orderly(sq)' /\ NoAck(sq)' /\ Arrived(e)
  BY <1>3 DEF Orderly, NoAck, Last, Follows, SizeQueued, Arrived
<1>5. spc' = spc /\ stimer' = stimer
  BY DEF server
<1>6. Here' = IF sq = <<>> THEN e[1].d ELSE Here
  BY <1>3 DEF Here
<1>7. HeadOk'
  <2>1. CASE sq = <<>>
    <3>1. spc = "top" /\ Here'.t \in Commands
      BY <1>1, <1>6, <2>1 DEF AtPrompt
    <3> QED BY <1>4, <1>5, <3>1 DEF HeadOk, NoAck
  <2>2. CASE sq # <<>>
    BY <1>1, <1>4, <1>5, <1>6, <2>2 DEF HeadOk, NoAck, Arrived
  <2> QED BY <2>1, <2>2
<1>8. Alone(c)'
  <2>1. \A i \in 1..Len(sq \o e) : (sq \o e)[i].from = c
    <3>1. \A i \in 1..Len(e) : e[i].from = c
      OBVIOUS
    <3>2. \A i \in 1..Len(sq) : sq[i].from = c
      BY <1>1 DEF Alone
    <3> QED BY <1>2, <3>1, <3>2, ElementOfBoth
  <2> QED BY <1>1, <2>1 DEF Alone
<1>9. Prompt(c)'
  BY <1>1, <1>5 DEF Prompt
<1> QED BY <1>4, <1>7, <1>8, <1>9

\* A command that is sent alone.
LEMMA OneArrives ==
  ASSUME TypeInv, NEW c \in Client, Ready(c), NEW command \in Commands \ {"put"},
         NEW f \in File \cup {NoOne}, Request(command, f) \in ToServers,
         Enters(c, command, f), ToServer(c, <<Request(command, f)>>),
         NEW state \in {"get_size", "reply"}, WaitIn(c, state),
         state = "get_size" <=> command = "get"
  PROVE  Order(c)'
<1> DEFINE ds == <<Request(command, f)>>
<1>1. /\ ClientTypes /\ Alone(c) /\ HeadOk /\ PhaseOk(c) /\ AtPrompt(c)
  BY TypeParts DEF Ready, Order, PhaseOk
<1>2. /\ ds \in Seq(ToServers) /\ Len(ds) = 1 /\ ds[1] = Request(command, f)
      /\ spc # "dead" /\ ToServer(c, ds)
  BY <1>1 DEF HeadOk
<1> HIDE DEF ds
<1>3. PICK e \in Seq(Sent) : sq' = sq \o e /\ SentAs(c, ds, e)
  BY <1>2, Sending
<1>4. /\ e # <<>> /\ Len(e) = 1 /\ e[1].d = Request(command, f) /\ e[1].d.t = command
      /\ \A i \in 1..Len(e) : e[i].from = c
  <2>1. Len(ds) \in Nat \ {0} /\ 1 \in 1..Len(ds)
    BY <1>2
  <2>2. /\ e # <<>> /\ Len(e) = Len(ds) /\ e[1].d = ds[1]
        /\ \A i \in 1..Len(e) : e[i].from = c
    BY <1>3, <2>1, SentAsIs
  <2> QED BY <1>2, <2>2, MessageIs
<1>5. Orderly(e) /\ Last(e) = Request(command, f) /\ \A i \in 1..Len(e) : e[i].d.t # "ack"
  <2>1. Follows(e, 1) /\ command # "ack"
    BY <1>4 DEF Follows, Commands
  <2>2. \A i \in 1..Len(e) : i = 1
    BY <1>4
  <2> QED BY <1>4, <2>1, <2>2 DEF Orderly, Last
<1>6. /\ cpc'[c] = state /\ ctimer'[c] = CTimeout /\ \A d \in Client \ {c} : cpc'[d] = cpc[d]
      /\ UNCHANGED server /\ cq' = cq
  BY <1>1 DEF WaitIn, ClientTypes, Enters
<1>7. Alone(c)' /\ Prompt(c)' /\ Orderly(sq)' /\ HeadOk' /\ Arrived(e)
  BY <1>3, <1>4, <1>5, <1>6, CommandArrives
<1>8. PhaseOk(c)'
  <2>1. Queued(c, {command})'
    BY <1>1, <1>5, <1>6, <1>7, MessageIs DEF Arrived, Queued, AtPrompt
  <2>2. state = "get_size" => AtGetSize(c)'
    BY <2>1 DEF AtGetSize, Queued
  <2>3. state = "reply" => AtReply(c)'
    BY <2>1 DEF AtReply, Queued, Commands
  <2>4. spc' = "get_ack" => srest' = <<>>
    BY <1>1, <1>6 DEF server, PhaseOk, AtPrompt, Ready
  <2> QED BY <1>6, <2>2, <2>3, <2>4 DEF PhaseOk
<1> QED BY <1>7, <1>8 DEF Order

\* A put of a file that is not there.
LEMMA NoFileArrives ==
  ASSUME TypeInv, NEW c \in Client, Ready(c), NEW f \in File, PutNoFile(c, f)
  PROVE  Order(c)'
<1> DEFINE ds == <<Request("put", f), Msg("do_not_create")>>
<1>1. /\ ClientTypes /\ Alone(c) /\ HeadOk /\ PhaseOk(c) /\ AtPrompt(c)
  BY TypeParts DEF Ready, Order, PhaseOk
<1>2. Request("put", f) \in ToServers /\ Msg("do_not_create") \in ToServers
  BY MessagesAre DEF Commands
<1>3. /\ ds \in Seq(ToServers) /\ Len(ds) = 2 /\ ds[1].t = "put" /\ ds[2].t = "do_not_create"
  BY <1>2, MessageIs
<1>4. ToServer(c, ds) /\ spc # "dead"
  BY <1>1 DEF PutNoFile, HeadOk
<1> HIDE DEF ds
<1>5. PICK e \in Seq(Sent) : sq' = sq \o e /\ SentAs(c, ds, e)
  BY <1>3, <1>4, Sending
<1>6. /\ e # <<>> /\ e[1].d.t = "put" /\ e[2].d.t = "do_not_create" /\ Len(e) = 2
      /\ \A i \in 1..Len(e) : e[i].from = c
  <2> e \in Seq(Sent) /\ SentAs(c, ds, e) /\ Len(ds) \in Nat \ {0}
    BY <1>3, <1>5
  <2>1. /\ e # <<>> /\ Len(e) = Len(ds) /\ \A i \in 1..Len(e) : e[i].from = c
        /\ \A i \in 1..Len(ds) : e[i].d = ds[i]
    BY SentAsIs
  <2>2. e[1].d = ds[1] /\ e[2].d = ds[2]
    BY <1>3, <2>1
  <2> QED BY <1>3, <2>1, <2>2
<1>7. Orderly(e) /\ Last(e).t = "do_not_create" /\ \A i \in 1..Len(e) : e[i].d.t # "ack"
  <2>1. Follows(e, 1) /\ Follows(e, 2)
    BY <1>6 DEF Follows, Commands
  <2>2. \A i \in 1..Len(e) : i = 1 \/ i = 2
    BY <1>6
  <2> QED BY <1>6, <2>1, <2>2 DEF Orderly, Last
<1>8. /\ cpc'[c] = "prompt" /\ \A d \in Client \ {c} : cpc'[d] = cpc[d]
      /\ UNCHANGED server /\ cq' = cq
  BY <1>1 DEF PutNoFile, Tells, ClientTypes, Enters
<1>9. Alone(c)' /\ Prompt(c)' /\ Orderly(sq)' /\ HeadOk' /\ Arrived(e)
  <2>1. \A i \in 1..Len(e) : e[i].from = c /\ e[i].d.t # "ack"
    BY <1>6, <1>7
  <2>2. e[1].d.t \in Commands /\ cpc'[c] \notin Waiting
    BY <1>6, <1>8 DEF Commands, Waiting
  <2> QED BY <1>5, <1>6, <1>7, <1>8, <2>1, <2>2, CommandArrives
<1>10. PhaseOk(c)'
  <2>1. AtPrompt(c)'
    BY <1>1, <1>7, <1>8, <1>9 DEF Arrived, AtPrompt
  <2>2. spc' = "get_ack" => srest' = <<>>
    BY <1>1, <1>8 DEF server, PhaseOk, AtPrompt, Ready
  <2> QED BY <1>8, <2>1, <2>2 DEF PhaseOk
<1> QED BY <1>9, <1>10 DEF Order

\* A request, and the two datagrams of a file.
Joined(S, r, h, b) ==
  /\ r \in Seq(S) /\ Len(r) = Len(h) + Len(b)
  /\ \A i \in 1..Len(h) : r[i] = h[i]
  /\ \A i \in 1..Len(b) : r[Len(h) + i] = b[i]
LEMMA Behind ==
  ASSUME NEW S, NEW h \in Seq(S), NEW b \in Seq(S)
  PROVE  Joined(S, h \o b, h, b)
BY DEF Joined

LEMMA OneAndTwo ==
  ASSUME NEW S, NEW h, NEW b, NEW r, Len(h) = 1, Len(b) = 2, Joined(S, r, h, b)
  PROVE  r \in Seq(S) /\ Len(r) = 3 /\ r[1] = h[1] /\ r[2] = b[1] /\ r[3] = b[2]
<1>1. /\ r \in Seq(S) /\ Len(r) = 1 + 2
      /\ \A i \in 1..1 : r[i] = h[i]
      /\ \A i \in 1..2 : r[1 + i] = b[i]
  BY Zenon DEF Joined
<1>2. r[1] = h[1] /\ r[1+1] = b[1] /\ r[1+2] = b[2]
  <2>1. 1 \in 1..1 /\ 1 \in 1..2 /\ 2 \in 1..2
    OBVIOUS
  <2> QED BY <1>1, <2>1, Zenon
<1>3. 1 + 1 = 2 /\ 1 + 2 = 3
  OBVIOUS
<1> QED BY <1>1, <1>2, <1>3, Zenon

\* A put: the size and the first block come with it.
LEMMA FileArrives ==
  ASSUME TypeInv, NEW c \in Client, Ready(c), NEW f \in File, Put(c, f)
  PROVE  Order(c)'
<1> DEFINE data == dir[c][f]
           ds == <<Request("put", f)>> \o Opening(data)
<1>1. /\ ClientTypes /\ Alone(c) /\ HeadOk /\ PhaseOk(c) /\ AtPrompt(c)
  BY TypeParts DEF Ready, Order, PhaseOk
<1>2. data \in Data
  BY <1>1 DEF Put, ClientTypes
<1>3. Request("put", f) \in ToServers
  BY MessagesAre DEF Commands
<1>4. /\ ToServer(c, ds) /\ spc # "dead" /\ rest' = [rest EXCEPT ![c] = AfterBlock(data)]
      /\ WaitIn(c, IF IsShort(Len(data)) THEN "put_final" ELSE "put_ack")
      /\ Enters(c, "put", f)
  BY <1>1 DEF Put, HeadOk
<1>5. /\ Opening(data) \in Seq(ToServers) /\ Len(Opening(data)) = 2
      /\ Opening(data)[1] = SizeMsg(Len(data)) /\ Opening(data)[2] = Block(FirstBlock(data))
      /\ Len(data) \in Nat
      /\ Len(FirstBlock(data)) + Len(AfterBlock(data)) = Len(data)
      /\ Len(data) > 0 => Len(FirstBlock(data)) > 0
  BY <1>2, OpeningIs, BlocksAre, DataIs
<1>6. /\ ds \in Seq(ToServers) /\ Len(ds) = 3 /\ ds[1] = Request("put", f)
      /\ ds[2] = SizeMsg(Len(data)) /\ ds[3] = Block(FirstBlock(data))
  <2> DEFINE h == <<Request("put", f)>>
             b == Opening(data)
  <2>1. h \in Seq(ToServers) /\ Len(h) = 1 /\ h[1] = Request("put", f)
    BY <1>3
  <2>2. b \in Seq(ToServers) /\ Len(b) = 2 /\ ds = h \o b
    BY <1>5
  <2> HIDE DEF h, b, ds
  <2>3. Joined(ToServers, ds, h, b)
    BY <2>1, <2>2, Behind
  <2>4. /\ ds \in Seq(ToServers) /\ Len(ds) = 3 /\ ds[1] = h[1]
        /\ ds[2] = b[1] /\ ds[3] = b[2]
    BY <2>1, <2>2, <2>3, OneAndTwo
  <2> QED BY <1>5, <2>1, <2>4 DEF b
<1> HIDE DEF data, ds
<1>7. PICK e \in Seq(Sent) : sq' = sq \o e /\ SentAs(c, ds, e)
  BY <1>4, <1>6, Sending
<1>8. /\ e # <<>> /\ Len(e) = 3
      /\ e[1].d.t = "put" /\ e[2].d.t = "size" /\ e[3].d.t = "block"
      /\ e[2].d.n = Len(data) /\ e[3].d.bytes = FirstBlock(data)
      /\ \A i \in 1..Len(e) : e[i].from = c
  <2> e \in Seq(Sent) /\ SentAs(c, ds, e) /\ Len(ds) \in Nat \ {0}
    BY <1>6, <1>7
  <2>1. /\ e # <<>> /\ Len(e) = Len(ds) /\ \A i \in 1..Len(e) : e[i].from = c
        /\ \A i \in 1..Len(ds) : e[i].d = ds[i]
    BY SentAsIs
  <2>2. e[1].d = ds[1] /\ e[2].d = ds[2] /\ e[3].d = ds[3]
    BY <1>6, <2>1
  <2> QED BY <1>6, <2>1, <2>2, MessageIs
<1>9. /\ Orderly(e) /\ Last(e).t = "block" /\ Last(e).bytes = FirstBlock(data)
      /\ \A i \in 1..Len(e) : e[i].d.t # "ack"
  <2>1. Follows(e, 1) /\ Follows(e, 2) /\ Follows(e, 3)
    BY <1>8 DEF Follows, Commands
  <2>2. \A i \in 1..Len(e) : i = 1 \/ i = 2 \/ i = 3
    BY <1>8
  <2> QED BY <1>8, <2>1, <2>2 DEF Orderly, Last
<1>10. /\ cpc'[c] = IF IsShort(Len(data)) THEN "put_final" ELSE "put_ack"
       /\ ctimer'[c] = CTimeout /\ \A d \in Client \ {c} : cpc'[d] = cpc[d]
       /\ UNCHANGED server /\ cq' = cq /\ rest'[c] = AfterBlock(data)
  BY <1>1, <1>4 DEF WaitIn, ClientTypes, Enters
<1>11. Alone(c)' /\ Prompt(c)' /\ Orderly(sq)' /\ HeadOk' /\ Arrived(e)
  <2>1. \A i \in 1..Len(e) : e[i].from = c /\ e[i].d.t # "ack"
    BY <1>8, <1>9
  <2>2. e[1].d.t \in Commands
    BY <1>8 DEF Commands
  <2> QED BY <1>7, <1>8, <1>9, <1>10, <2>1, <2>2, CommandArrives
<1>12. PhaseOk(c)'
  <2>1. Queued(c, {"block"})' /\ Last(sq)' = Last(e) /\ SizeQueued' = Len(data)
    BY <1>1, <1>7, <1>8, <1>9, <1>10, <1>11 DEF Arrived, Queued, AtPrompt
  <2>2. spc \in {"top", "put_size", "get_ack"}
    <3>1. CASE sq = <<>>
      BY <1>1, <3>1 DEF AtPrompt
    <3>2. CASE sq # <<>>
      <4>1. sq \in Seq(Sent) /\ Orderly(sq) /\ NoAck(sq) /\ Last(sq).t \in {"do_not_create", "ack"}
        BY <1>1, <3>2, TypeParts DEF Ready, Order, QueuesOk, HeadOk, NoAck, AtPrompt
      <4>2. Follows(sq, 1) /\ Head(sq) = sq[1] /\ (Len(sq) = 1 => Last(sq) = Head(sq).d)
        BY <3>2, <4>1, OrderlyTail
      <4>3. Here.t # "block"
        BY <4>1, <4>2 DEF Follows, Here, Commands
      <4> QED BY <1>1, <3>2, <4>3 DEF HeadOk
    <3> QED BY <3>1, <3>2
  <2>3. IsShort(Len(data)) => AtPutFinal(c)'
    BY <1>10, <2>1, <2>2 DEF AtPutFinal, BeforeBlock, server, Queued
  <2>4. ~IsShort(Len(data)) => AtPutAck(c)'
    <3>1. ASSUME ~IsShort(Len(data)) PROVE Len(data) > 0
      BY <1>5, <3>1, UftpAssumption DEF IsShort
    <3> QED BY <1>5, <1>9, <1>10, <2>1, <2>2, <3>1
            DEF AtPutAck, BeforeBlock, server, Queued
  <2>5. spc' = "get_ack" => srest' = <<>>
    BY <1>1, <1>10 DEF server, PhaseOk, AtPrompt, Ready
  <2> QED BY <1>10, <2>3, <2>4, <2>5 DEF PhaseOk
<1> QED BY <1>11, <1>12 DEF Order

\* A command begins.  That of another client makes c's last one odd.
LEMMA EnterOrder ==
  ASSUME TypeInv, OrderInv, NEW c \in Client, Enter(c)
  PROVE  OrderInv'
<1> SUFFICES ASSUME faults' = 0, NEW d \in Client, ~odd'[d]
             PROVE  Order(d)'
  BY DEF OrderInv
<1>1. PICK command \in Commands, f \in File \cup {NoOne} : Enters(c, command, f)
  <2>1. CASE \E f \in File : Get(c, f) \/ PutNoFile(c, f) \/ Put(c, f) \/ Delete(c, f)
    BY <2>1 DEF Get, PutNoFile, Put, Delete, Commands
  <2>2. CASE ListOrExit(c)
    BY <2>2 DEF ListOrExit, Commands
  <2> QED BY <2>1, <2>2 DEF Enter
<1>2. d = c /\ faults = 0 /\ cpc[c] = "prompt" /\ (~odd[c] \/ Quiet)
  BY <1>1 DEF Enters
<1>3. Ready(c)
  BY <1>2, QuietIsReady DEF Ready, OrderInv
<1>4. ASSUME NEW g \in File, Get(c, g) PROVE Order(c)'
  <2>1. Request("get", g) \in ToServers /\ "get" \in Commands \ {"put"}
    BY MessagesAre DEF Commands
  <2> QED BY <1>3, <1>4, <2>1, OneArrives DEF Get
<1>5. ASSUME NEW g \in File, Delete(c, g) PROVE Order(c)'
  <2>1. Request("delete", g) \in ToServers /\ "delete" \in Commands \ {"put"}
    BY MessagesAre DEF Commands
  <2> QED BY <1>3, <1>5, <2>1, OneArrives DEF Delete
<1>6. CASE ListOrExit(c)
  <2>1. PICK k \in {"ls", "exit"} : /\ Enters(c, k, NoOne)
                                    /\ ToServer(c, <<Request(k, NoOne)>>)
                                    /\ WaitIn(c, "reply")
    BY <1>6 DEF ListOrExit
  <2>2. Request(k, NoOne) \in ToServers /\ k \in Commands \ {"put"} /\ k # "get"
    BY MessagesAre DEF Commands
  <2> QED BY <1>2, <1>3, <2>1, <2>2, OneArrives
<1> QED BY <1>2, <1>3, <1>4, <1>5, <1>6, NoFileArrives, FileArrives DEF Enter

(* -------------------------- a client alone: server --------------------- *)

\* What is last in the server's socket says where the client is.
LEMMA LastIs ==
  ASSUME NEW c \in Client, Order(c), TypeInv, sq # <<>>
  PROVE  /\ cq[c] = <<>>
         /\ Last(sq).t = "get" => cpc[c] = "get_size"
         /\ Last(sq).t \in {"delete", "ls", "exit"} => cpc[c] = "reply"
         /\ Last(sq).t = "block" => cpc[c] \in {"put_ack", "put_final"}
         /\ Last(sq).t = "do_not_create" => cpc[c] \in {"prompt", "gone"}
         /\ Last(sq).t = "ack" => cpc[c] \in {"prompt", "gone", "get_large"}
<1>1. PhaseOk(c) /\ cpc[c] \in Waiting \cup {"prompt", "gone"}
  BY TypeParts DEF Order, PhaseOk, ClientTypes
<1>2. \A n : ~Taken(c, n)
  BY DEF Taken
<1>3. CASE cpc[c] \in {"prompt", "gone"}
  BY <1>1, <1>3 DEF PhaseOk, AtPrompt
<1>4. CASE cpc[c] = "reply"
  BY <1>1, <1>2, <1>4 DEF PhaseOk, AtReply, Queued
<1>5. CASE cpc[c] = "get_size"
  BY <1>1, <1>2, <1>5 DEF PhaseOk, AtGetSize, Queued
<1>6. CASE cpc[c] = "get_small"
  BY <1>1, <1>2, <1>6 DEF PhaseOk, AtGetSmall
<1>7. CASE cpc[c] = "get_large"
  BY <1>1, <1>2, <1>7 DEF PhaseOk, AtGetLarge, Queued
<1>8. CASE cpc[c] = "put_ack"
  BY <1>1, <1>2, <1>8 DEF PhaseOk, AtPutAck, Queued
<1>9. CASE cpc[c] = "put_final"
  BY <1>1, <1>2, <1>9 DEF PhaseOk, AtPutFinal, Queued
<1> QED BY <1>1, <1>3, <1>4, <1>5, <1>6, <1>7, <1>8, <1>9 DEF Waiting

\* The server takes a datagram: what is left, and what it took.
Popped(c) ==
  /\ Orderly(sq)' /\ NoAck(sq') /\ From = c /\ Here = sq[1].d /\ Here \in ToServers
  /\ Follows(sq, 1) /\ NoAck(sq)
  /\ \A i \in 1..Len(sq') : sq'[i].from = c
  /\ Len(sq) \in Nat
  /\ \/ Len(sq) = 1 /\ sq' = <<>> /\ Last(sq) = Here
     \/ Len(sq) > 1 /\ sq' # <<>> /\ Last(sq)' = Last(sq) /\ Here' = sq[2].d
  /\ Len(sq) > 2 => SizeQueued' = SizeQueued
LEMMA Popping ==
  ASSUME TypeInv, NEW c \in Client, Order(c), sq # <<>>, sq' = Tail(sq)
  PROVE  Popped(c)
<1>1. sq \in Seq(Sent) /\ Orderly(sq) /\ NoAck(sq) /\ Alone(c) /\ QueuesOk
  BY TypeParts DEF Order, QueuesOk, HeadOk, NoAck
<1>2. /\ Orderly(Tail(sq)) /\ NoAck(Tail(sq)) /\ Len(Tail(sq)) = Len(sq) - 1
      /\ Follows(sq, 1) /\ Len(sq) >= 1 /\ Head(sq) = sq[1]
      /\ Len(sq) = 1 => Tail(sq) = <<>> /\ Last(sq) = Head(sq).d
      /\ Len(sq) > 1 => /\ Tail(sq) # <<>> /\ Last(Tail(sq)) = Last(sq)
                        /\ Head(Tail(sq)) = sq[2]
      /\ Len(sq) > 2 => Tail(sq)[Len(Tail(sq)) - 1] = sq[Len(sq) - 1]
      /\ \A i \in 1..Len(Tail(sq)) : Tail(sq)[i] = sq[i+1]
  BY <1>1, OrderlyTail
<1>3. Len(sq) \in Nat /\ Here \in ToServers
  BY <1>1, ServerTakes
<1>4. From = c /\ Here = sq[1].d
  BY <1>1, <1>2, <1>3 DEF Alone, From, Here
<1>5. \A i \in 1..Len(sq') : sq'[i].from = c
  <2> SUFFICES ASSUME NEW i \in 1..Len(sq') PROVE sq'[i].from = c
    OBVIOUS
  <2>1. i + 1 \in 1..Len(sq) /\ sq'[i] = sq[i+1]
    BY <1>2, <1>3
  <2> QED BY <1>1, <2>1 DEF Alone
<1>6. Orderly(sq)' /\ NoAck(sq')
  BY <1>2 DEF Orderly, Follows
<1>7. Len(sq) > 2 => SizeQueued' = SizeQueued
  BY <1>2 DEF SizeQueued
<1>8. \/ Len(sq) = 1 /\ sq' = <<>> /\ Last(sq) = Here
      \/ Len(sq) > 1 /\ sq' # <<>> /\ Last(sq)' = Last(sq) /\ Here' = sq[2].d
  BY <1>2, <1>3 DEF Last, Here
<1> QED BY <1>1, <1>2, <1>3, <1>4, <1>5, <1>6, <1>7, <1>8 DEF Popped

\* The server takes what nobody waits for an answer to.
LEMMA PassOrder ==
  ASSUME TypeInv, NEW c \in Client, Order(c), sq # <<>>, sq' = Tail(sq), UNCHANGED client,
         cq' = cq, Here.t \in {"put", "do_not_create", "ack"},
         Here.t = "ack" => cpc[c] # "get_large",
         spc' = IF Here.t = "put" THEN "put_size" ELSE "top",
         spc' \in InPut => stimer' = STimeout
  PROVE  Order(c)'
<1>1. /\ Popped(c) /\ Alone(c) /\ Prompt(c) /\ HeadOk /\ PhaseOk(c)
      /\ cpc' = cpc /\ ctimer' = ctimer /\ rest' = rest
  BY Popping DEF Order, client, transfer
<1>2. Alone(c)' /\ Prompt(c)' /\ Orderly(sq)'
  BY <1>1 DEF Alone, Prompt, Popped
<1>3. sq[1].d.t = Here.t
  BY <1>1 DEF Popped
<1>4. HeadOk'
  <2>1. NoAck(sq')
    BY <1>1 DEF Popped
  <2>2. Here.t = "put" => sq' # <<>> /\ Here'.t \in {"do_not_create", "size"}
    BY <1>1, <1>3 DEF Popped, Follows
  <2>3. Here.t # "put" /\ sq' # <<>> => Here'.t \in Commands
    BY <1>1, <1>3 DEF Popped, Follows
  <2> QED BY <2>1, <2>2, <2>3 DEF HeadOk, NoAck
<1>5. CASE Len(sq) = 1
  <2>1. sq' = <<>> /\ Last(sq) = Here /\ Here.t # "put"
    BY <1>1, <1>3, <1>5 DEF Popped, Follows
  <2>2. cpc[c] \in {"prompt", "gone"} /\ cq[c] = <<>>
    BY <2>1, LastIs
  <2>3. AtPrompt(c)'
    BY <2>1, <2>2 DEF AtPrompt
  <2>4. PhaseOk(c)'
    BY <1>1, <2>1, <2>2, <2>3 DEF PhaseOk
  <2> QED BY <1>2, <1>4, <2>4 DEF Order
<1>6. CASE Len(sq) > 1
  <2>1. sq' # <<>> /\ Last(sq)' = Last(sq) /\ cq[c] = <<>>
    <3>1. Len(sq) # 1
      BY <1>6
    <3>2. sq' # <<>> /\ Last(sq)' = Last(sq)
      BY <1>1, <3>1, Zenon DEF Popped
    <3>3. cq[c] = <<>>
      BY LastIs
    <3> QED BY <3>2, <3>3
  <2>2. /\ Here.t # "block" /\ Here.t # "size" /\ \A n : ~Taken(c, n)
        /\ spc \in {"top", "put_size", "get_ack"}
    BY <1>1, <2>1 DEF HeadOk, Taken
  <2>3. Last(sq).t = "block" => SizeQueued' = SizeQueued
    <3>1. Len(sq) = 2 => Last(sq).t # "block"
      BY <1>1, <1>3 DEF Popped, Follows, Last, Commands
    <3>2. Len(sq) \in Nat /\ (Len(sq) > 2 => SizeQueued' = SizeQueued)
      BY <1>1, Zenon DEF Popped
    <3>3. Len(sq) = 2 \/ Len(sq) > 2
      <4>1. \A n \in Nat : n > 1 => n = 2 \/ n > 2
        OBVIOUS
      <4> QED BY <1>6, <3>2, <4>1, Zenon
    <3> QED BY <3>1, <3>2, <3>3, Zenon
  <2>4. cpc[c] \in {"prompt", "gone"} => AtPrompt(c)'
    BY <1>1, <2>1 DEF PhaseOk, AtPrompt
  <2>5. cpc[c] = "reply" => AtReply(c)'
    BY <1>1, <2>1, <2>2 DEF PhaseOk, AtReply, Queued
  <2>6. cpc[c] = "get_size" => AtGetSize(c)'
    BY <1>1, <2>1, <2>2 DEF PhaseOk, AtGetSize, Queued
  <2>7. cpc[c] # "get_small"
    BY <1>1, <2>2 DEF PhaseOk, AtGetSmall
  <2>8. cpc[c] # "get_large"
    <3>1. ASSUME cpc[c] = "get_large" PROVE Last(sq).t = "ack"
      BY <1>1, <2>2, <3>1 DEF PhaseOk, AtGetLarge, Queued
    <3>2. Last(sq).t # "ack"
      BY <1>1, <1>6 DEF Popped, NoAck, Last
    <3> QED BY <3>1, <3>2
  <2>9. cpc[c] = "put_ack" => AtPutAck(c)'
    <3> SUFFICES ASSUME cpc[c] = "put_ack" PROVE AtPutAck(c)'
      OBVIOUS
    <3>1. AtPutAck(c) /\ spc # "put_large"
      BY <1>1, <2>2 DEF PhaseOk
    <3>2. /\ Queued(c, {"block"}) /\ ~IsShort(SizeQueued) /\ Len(Last(sq).bytes) > 0
          /\ SizeQueued = Len(Last(sq).bytes) + Len(rest[c])
      BY <2>2, <3>1 DEF AtPutAck
    <3>3. Queued(c, {"block"})' /\ BeforeBlock' /\ SizeQueued' = SizeQueued
      BY <1>1, <2>1, <2>3, <3>2 DEF Queued, BeforeBlock
    <3> QED BY <1>1, <2>1, <3>2, <3>3 DEF AtPutAck, IsShort
  <2>10. cpc[c] = "put_final" => AtPutFinal(c)'
    <3> SUFFICES ASSUME cpc[c] = "put_final" PROVE AtPutFinal(c)'
      OBVIOUS
    <3>1. AtPutFinal(c) /\ spc # "put_small"
      BY <1>1, <2>2 DEF PhaseOk
    <3>2. Queued(c, {"block"}) /\ IsShort(SizeQueued)
      BY <2>2, <3>1 DEF AtPutFinal
    <3>3. Queued(c, {"block"})' /\ BeforeBlock' /\ SizeQueued' = SizeQueued
      BY <1>1, <2>1, <2>3, <3>2 DEF Queued, BeforeBlock
    <3> QED BY <3>2, <3>3 DEF AtPutFinal, IsShort
  <2>11. PhaseOk(c)'
    BY <1>1, <2>4, <2>5, <2>6, <2>7, <2>8, <2>9, <2>10 DEF PhaseOk
  <2> QED BY <1>2, <1>4, <2>11 DEF Order
<1> QED BY <1>1, <1>5, <1>6 DEF Popped

\* The server takes the last datagram of c, and answers with ds.
Answered(c, ds) ==
  /\ sq' = <<>> /\ cq'[c] = ds /\ cpc'[c] = cpc[c] /\ rest' = rest /\ done' = done /\ need' = need
  /\ Alone(c)' /\ Prompt(c)' /\ Orderly(sq)' /\ HeadOk'
LEMMA Answering ==
  ASSUME TypeInv, NEW c \in Client, Order(c), sq # <<>>, sq' = Tail(sq), UNCHANGED client,
         Len(sq) = 1, cpc[c] \in Waiting, NEW ds \in Seq(ToClients), ToClient(c, ds),
         spc' \in {"top", "put_small", "put_large", "get_ack"},
         spc' \in InPut => stimer' = STimeout
  PROVE  Answered(c, ds)
<1>1. /\ Popped(c) /\ Alone(c) /\ Prompt(c) /\ HeadOk /\ PhaseOk(c) /\ cq[c] = <<>> /\ QueuesOk
      /\ cpc' = cpc /\ ctimer' = ctimer /\ rest' = rest /\ done' = done /\ need' = need
  BY Popping, LastIs, TypeParts DEF Order, client, transfer
<1>2. sq' = <<>>
  BY <1>1 DEF Popped
<1>3. cq' = [cq EXCEPT ![c] = cq[c] \o ds]
  <2>1. c # NoOne /\ cpc[c] \notin {"gone", "dead"}
    BY UftpAssumption DEF Waiting
  <2> QED BY <2>1 DEF ToClient
<1>4. <<>> \o ds = ds
  BY ConcatEmptySeq
<1>5. cq'[c] = ds /\ \A d \in Client \ {c} : cq'[d] = cq[d]
  BY <1>1, <1>3, <1>4 DEF QueuesOk
<1>6. Alone(c)' /\ Prompt(c)'
  <2>1. \A i \in 1..Len(sq') : sq'[i].from = c
    BY <1>1, Zenon DEF Popped
  <2>2. \A d \in Client \ {c} : cpc'[d] \notin Waiting /\ cq'[d] = <<>>
    BY <1>1, <1>5, Zenon DEF Alone
  <2>3. cpc'[c] \in Waiting => ctimer'[c] = CTimeout
    BY <1>1, Zenon DEF Prompt
  <2> QED BY <2>1, <2>2, <2>3 DEF Alone, Prompt
<1>7. Orderly(sq)' /\ HeadOk'
  BY <1>2 DEF Orderly, HeadOk
<1> QED BY <1>1, <1>2, <1>5, <1>6, <1>7 DEF Answered

\* A get, a delete, an ls and an exit are answered when they are taken.
LEMMA CommandTaken ==
  ASSUME TypeInv, NEW c \in Client, Order(c), sq # <<>>, sq' = Tail(sq),
         Here.t \in Commands \ {"put"}
  PROVE  /\ Len(sq) = 1 /\ From = c
         /\ cpc[c] = IF Here.t = "get" THEN "get_size" ELSE "reply"
<1>1. Popped(c)
  BY Popping
<1>2. Len(sq) = 1 /\ Last(sq) = Here /\ From = c
  BY <1>1 DEF Popped, Follows
<1> QED BY <1>2, LastIs DEF Commands

LEMMA ServeGetOrder ==
  ASSUME TypeInv, NEW c \in Client, Order(c), ServeGet \/ ServeGetNoFile
  PROVE  Order(c)'
<1>1. /\ sq # <<>> /\ sq' = Tail(sq) /\ Here.t \in Commands \ {"put"} /\ Here.t = "get"
      /\ UNCHANGED client /\ QueuesOk /\ ServerTypes
  BY TypeParts DEF ServeGet, ServeGetNoFile, Takes, Commands
<1>2. Len(sq) = 1 /\ cpc[c] = "get_size" /\ cpc[c] \in Waiting /\ From = c
  BY <1>1, CommandTaken DEF Waiting
<1>3. CASE ServeGet
  <2> DEFINE data == disk[Here.file]
             ds == Opening(data)
  <2>1. data \in Data
    <3>1. Here.file \in File
      BY <1>1, ServerTakes DEF ToServers
    <3> QED BY <1>1, <1>3, <3>1 DEF ServeGet, ServerTypes
  <2>2. /\ ToClient(From, ds) /\ srest' = AfterBlock(data)
        /\ spc' = (IF IsShort(Len(data)) THEN "top" ELSE "get_ack")
    BY <1>3 DEF ServeGet, Goto
  <2>3. /\ ds \in Seq(ToClients) /\ Len(ds) = 2 /\ Len(data) \in Nat
        /\ ds[1] = SizeMsg(Len(data)) /\ ds[2] = Block(FirstBlock(data))
    BY <2>1, OpeningIs, DataIs
  <2>4. /\ Len(FirstBlock(data)) + Len(AfterBlock(data)) = Len(data)
        /\ Len(data) > 0 => Len(FirstBlock(data)) > 0
    BY <2>1, BlocksAre
  <2> HIDE DEF data, ds
  <2>5. Answered(c, ds)
    <3>1. spc' \in {"top", "put_small", "put_large", "get_ack"} /\ spc' \notin InPut
      BY <2>2 DEF InPut
    <3>2. ToClient(c, ds)
      BY <1>2, <2>2
    <3> QED BY <1>1, <1>2, <2>3, <3>1, <3>2, Answering
  <2>6. Taken(c, 2)' /\ cq'[c][1].t = "size" /\ cq'[c][1].n = Len(data)
        /\ cq'[c][2].bytes = FirstBlock(data)
    BY <2>3, <2>5, MessageIs DEF Answered, Taken
  <2>7. ~IsShort(Len(data)) => Len(data) > 0
    BY <2>3, UftpAssumption DEF IsShort
  <2>8. AtGetSize(c)'
    BY <2>2, <2>4, <2>6, <2>7 DEF AtGetSize, IsShort
  <2> QED BY <1>2, <2>5, <2>8 DEF Answered, Order, PhaseOk
<1>4. CASE ServeGetNoFile
  <2> DEFINE ds == <<Msg("no_file")>>
  <2>1. ds \in Seq(ToClients) /\ Len(ds) = 1 /\ ds[1].t = "no_file"
    BY MessagesAre, MessageIs
  <2>2. ToClient(c, ds) /\ spc' = "top"
    BY <1>2, <1>4 DEF ServeGetNoFile, Takes
  <2> HIDE DEF ds
  <2>3. Answered(c, ds)
    <3>1. spc' \in {"top", "put_small", "put_large", "get_ack"} /\ spc' \notin InPut
      BY <2>2 DEF InPut
    <3> QED BY <1>1, <1>2, <2>1, <2>2, <3>1, Answering
  <2>4. AtGetSize(c)'
    BY <2>1, <2>2, <2>3 DEF AtGetSize, Answered, Taken
  <2> QED BY <1>2, <2>3, <2>4 DEF Answered, Order, PhaseOk
<1> QED BY <1>3, <1>4

LEMMA ServeReplyOrder ==
  ASSUME TypeInv, NEW c \in Client, Order(c), ServeDelete \/ ServeListOrExit
  PROVE  Order(c)'
<1>1. PICK t \in {"delete_failed", "delete_successful", "ls", "exit"} :
        ToClient(From, <<FullMsg(t)>>)
  BY DEF ServeDelete, ServeListOrExit
<1>2. /\ sq # <<>> /\ sq' = Tail(sq) /\ Here.t \in Commands \ {"put"} /\ Here.t # "get"
      /\ UNCHANGED client /\ spc' = "top"
  BY DEF ServeDelete, ServeListOrExit, Takes, Commands
<1>3. Len(sq) = 1 /\ cpc[c] = "reply" /\ cpc[c] \in Waiting /\ From = c
  BY <1>2, CommandTaken DEF Waiting
<1> DEFINE ds == <<FullMsg(t)>>
<1>4. ds \in Seq(ToClients) /\ Len(ds) = 1
  BY MessagesAre DEF Told
<1>5. ToClient(c, ds)
  BY <1>1, <1>3
<1> HIDE DEF ds
<1>6. Answered(c, ds)
  <2>1. spc' \in {"top", "put_small", "put_large", "get_ack"} /\ spc' \notin InPut
    BY <1>2 DEF InPut
  <2> QED BY <1>2, <1>3, <1>4, <1>5, <2>1, Answering
<1>7. AtReply(c)'
  BY <1>2, <1>4, <1>6 DEF AtReply, Answered, Taken
<1> QED BY <1>3, <1>6, <1>7, <1>2 DEF Answered, Order, PhaseOk

\* The server has to pass the size, or that there is no file.
LEMMA ServePutOrder ==
  ASSUME TypeInv, NEW c \in Client, Order(c), ServePut \/ ServePutNoFile
  PROVE  Order(c)'
<1>1. /\ sq # <<>> /\ sq' = Tail(sq) /\ UNCHANGED client /\ cq' = cq
      /\ Here.t \in {"put", "do_not_create", "ack"} /\ Here.t # "ack"
      /\ spc' = IF Here.t = "put" THEN "put_size" ELSE "top"
      /\ spc' \in InPut => stimer' = STimeout
  BY DEF ServePut, ServePutNoFile, Takes, Goto, InPut
<1> QED BY <1>1, PassOrder

\* An ACK of the client that gets, or one that came after the last block.
LEMMA ServeAckOrder ==
  ASSUME TypeInv, NEW c \in Client, Order(c), ServeAck
  PROVE  Order(c)'
<1>1. /\ sq # <<>> /\ sq' = Tail(sq) /\ UNCHANGED client /\ spc = "get_ack"
      /\ HeadOk /\ PhaseOk(c) /\ ServerTypes
  BY TypeParts DEF ServeAck, Takes, Order
<1>2. Here.t = "ack" /\ Popped(c)
  BY <1>1, Popping DEF HeadOk
<1>3. CASE cpc[c] = "get_large"
  <2>1. /\ Queued(c, {"ack"}) /\ Len(srest) > 0 /\ done[c] + Len(srest) = need[c]
    BY <1>1, <1>3 DEF PhaseOk, AtGetLarge, Taken
  <2>2. Len(sq) = 1
    <3>1. ASSUME Len(sq) > 1 PROVE Last(sq).t # "ack"
      BY <1>2, <3>1 DEF Popped, NoAck, Last
    <3> QED BY <1>2, <2>1, <3>1 DEF Popped, Queued
  <2>3. From = c /\ cpc[c] \in Waiting
    BY <1>2, <1>3 DEF Popped, Waiting
  <2> DEFINE b == FirstBlock(srest)
             ds == <<Block(b)>>
  <2>4. /\ srest \in Data /\ b \in Data /\ AfterBlock(srest) \in Data
        /\ Len(b) + Len(AfterBlock(srest)) = Len(srest) /\ Len(b) > 0
        /\ Len(b) \in Nat /\ Len(AfterBlock(srest)) \in Nat
    <3>1. srest \in Data
      BY <1>1 DEF ServerTypes
    <3> QED BY <2>1, <3>1, BlocksAre, DataIs
  <2>5. ds \in Seq(ToClients) /\ Len(ds) = 1 /\ ds[1] = Block(b)
    BY <2>4, MessagesAre
  <2>6. srest # <<>>
    BY <2>1
  <2>7. ToClient(c, ds) /\ srest' = AfterBlock(srest) /\ spc' = "get_ack"
    BY <1>1, <2>3, <2>6 DEF ServeAck
  <2> HIDE DEF b, ds
  <2>8. Answered(c, ds)
    <3>1. spc' \in {"top", "put_small", "put_large", "get_ack"} /\ spc' \notin InPut
      BY <2>7 DEF InPut
    <3> QED BY <1>1, <2>2, <2>3, <2>5, <2>7, <3>1, Answering
  <2>9. Taken(c, 1)' /\ cq'[c][1].bytes = b
    BY <2>5, <2>8, MessageIs DEF Answered, Taken
  <2>10. done'[c] + Len(b) + Len(srest') = need'[c]
    <3>1. done[c] \in Nat
      BY TypeParts DEF ClientTypes
    <3>2. done' = done /\ need' = need
      BY <2>8 DEF Answered
    <3> QED BY <2>1, <2>4, <2>7, <3>1, <3>2
  <2>11. AtGetLarge(c)'
    BY <2>4, <2>7, <2>9, <2>10 DEF AtGetLarge
  <2> QED BY <1>3, <2>8, <2>11 DEF Answered, Order, PhaseOk
<1>4. CASE cpc[c] # "get_large"
  <2>1. srest = <<>>
    BY <1>1, <1>4 DEF PhaseOk
  <2>2. spc' = "top" /\ cq' = cq
    BY <2>1 DEF ServeAck, Goto
  <2> QED BY <1>1, <1>2, <1>4, <2>2, PassOrder DEF InPut
<1> QED BY <1>3, <1>4

\* The size is followed by the first block.
LEMMA ServePutSizeOrder ==
  ASSUME TypeInv, NEW c \in Client, Order(c), ServePutSize
  PROVE  Order(c)'
<1>1. /\ sq # <<>> /\ sq' = Tail(sq) /\ UNCHANGED client /\ spc = "put_size" /\ cq' = cq
      /\ HeadOk /\ PhaseOk(c) /\ Alone(c) /\ Prompt(c) /\ Here.t # "do_not_create"
      /\ ctimer' = ctimer /\ cpc' = cpc /\ rest' = rest
      /\ sneed' = Number(Here) /\ sdone' = 0
      /\ spc' = (IF IsShort(Number(Here)) THEN "put_small" ELSE "put_large")
      /\ stimer' = STimeout
  BY DEF ServePutSize, Order, Expect, Goto, InPut, client, transfer
<1>2. Here.t = "size" /\ Popped(c) /\ Here \in Datagram
  BY <1>1, Popping, ServerTakes, TypeParts DEF HeadOk
<1>3. Len(sq) = 2 /\ sq[2].d.t = "block" /\ Here = sq[1].d /\ Len(sq) \in Nat
  BY <1>2 DEF Popped, Follows, Commands
<1>4. /\ sq' # <<>> /\ Last(sq)' = Last(sq) /\ Here'.t = "block" /\ NoAck(sq')
      /\ \A i \in 1..Len(sq') : sq'[i].from = c
      /\ Orderly(sq)' /\ Last(sq).t = "block"
  <2>1. Len(sq) # 1
    BY <1>3
  <2>2. Last(sq).t = "block"
    BY <1>3 DEF Last
  <2> QED BY <1>2, <1>3, <2>1, <2>2, Zenon DEF Popped
<1>5. SizeQueued = Here.n /\ Number(Here) = Here.n /\ Here.n \in Nat
  <2>1. Len(sq) - 1 = 1
    BY <1>3
  <2> QED BY <1>2, <1>3, <2>1, DatagramIs DEF SizeQueued
<1>6. cq[c] = <<>> /\ cpc[c] \in {"put_ack", "put_final"} /\ \A n : ~Taken(c, n)
  BY <1>1, <1>4, LastIs DEF Taken
<1>7. Queued(c, {"block"})'
  BY <1>1, <1>4, <1>6 DEF Queued
<1>8. Alone(c)' /\ Prompt(c)'
  BY <1>1, <1>4 DEF Alone, Prompt
<1>9. HeadOk'
  BY <1>1, <1>4 DEF HeadOk, NoAck
<1>10. cpc[c] = "put_ack" => AtPutAck(c)'
  <2> SUFFICES ASSUME cpc[c] = "put_ack" PROVE AtPutAck(c)'
    OBVIOUS
  <2>1. /\ ~IsShort(SizeQueued) /\ Len(Last(sq).bytes) > 0
        /\ SizeQueued = Len(Last(sq).bytes) + Len(rest[c])
    BY <1>1, <1>6 DEF PhaseOk, AtPutAck
  <2>2. spc' = "put_large" /\ sneed' = SizeQueued /\ sdone' = 0
    BY <1>1, <1>5, <2>1
  <2>3. Len(Last(sq).bytes) \in Nat /\ Len(rest[c]) \in Nat
    <3>1. sq \in Seq(Sent) /\ rest[c] \in Data
      BY TypeParts DEF QueuesOk, ClientTypes
    <3>2. sq[2] \in Sent /\ Last(sq) = sq[2].d
      <4>1. \A i \in 1..Len(sq) : sq[i] \in Sent
        BY <3>1
      <4>2. 2 \in 1..Len(sq) /\ Last(sq) = sq[2].d
        BY <1>3 DEF Last
      <4> QED BY <4>1, <4>2
    <3>3. Last(sq) \in Datagram
      BY <3>2 DEF Sent, ToServers
    <3> QED BY <3>1, <3>3, DatagramIs, DataIs
  <2>4. sdone' + Len(Last(sq).bytes) + Len(rest[c]) = sneed'
    BY <2>1, <2>2, <2>3
  <2> QED BY <1>1, <1>4, <1>7, <2>1, <2>2, <2>4 DEF AtPutAck
<1>11. cpc[c] = "put_final" => AtPutFinal(c)'
  <2> SUFFICES ASSUME cpc[c] = "put_final" PROVE AtPutFinal(c)'
    OBVIOUS
  <2>1. IsShort(SizeQueued)
    BY <1>1, <1>6 DEF PhaseOk, AtPutFinal
  <2> QED BY <1>1, <1>5, <1>7, <2>1 DEF AtPutFinal
<1>12. PhaseOk(c)'
  BY <1>1, <1>6, <1>10, <1>11 DEF PhaseOk
<1> QED BY <1>4, <1>8, <1>9, <1>12 DEF Order

\* A block is the last datagram of its client.
LEMMA BlockTaken ==
  ASSUME TypeInv, NEW c \in Client, Order(c), sq # <<>>, sq' = Tail(sq),
         spc \in {"put_small", "put_large"}
  PROVE  /\ Len(sq) = 1 /\ From = c /\ Last(sq) = Here /\ Here \in Datagram
         /\ cpc[c] = IF spc = "put_small" THEN "put_final" ELSE "put_ack"
         /\ spc = "put_large" => /\ Len(Here.bytes) > 0
                                 /\ sdone + Len(Here.bytes) + Len(rest[c]) = sneed
<1>1. Popped(c) /\ Here.t = "block" /\ HeadOk /\ PhaseOk(c)
  BY Popping DEF Order, HeadOk
<1>2. Len(sq) = 1 /\ Last(sq) = Here /\ From = c /\ Here \in Datagram
  <2>1. Follows(sq, 1) /\ Here = sq[1].d /\ From = c /\ Here \in ToServers
    BY <1>1, Zenon DEF Popped
  <2>2. Len(sq) = 1
    BY <1>1, <2>1 DEF Follows
  <2>3. Last(sq) = Here
    BY <2>1, <2>2 DEF Last
  <2> QED BY <2>1, <2>2, <2>3 DEF ToServers
<1>3. cpc[c] \in {"put_ack", "put_final"} /\ ~BeforeBlock /\ \A n : ~Taken(c, n)
  BY <1>1, <1>2, LastIs DEF BeforeBlock, Taken
<1>4. cpc[c] = "put_ack" => /\ spc = "put_large" /\ Len(Here.bytes) > 0
                            /\ sdone + Len(Here.bytes) + Len(rest[c]) = sneed
  BY <1>1, <1>2, <1>3 DEF PhaseOk, AtPutAck
<1>5. cpc[c] = "put_final" => spc = "put_small"
  BY <1>1, <1>3 DEF PhaseOk, AtPutFinal
<1> QED BY <1>2, <1>3, <1>4, <1>5

LEMMA ServePutSmallOrder ==
  ASSUME TypeInv, NEW c \in Client, Order(c), ServePutSmall
  PROVE  Order(c)'
<1>1. /\ sq # <<>> /\ sq' = Tail(sq) /\ UNCHANGED client /\ spc = "put_small"
      /\ ToClient(From, <<FullMsg("put_successful")>>) /\ spc' = "top"
  BY DEF ServePutSmall, Takes, Goto
<1>2. Len(sq) = 1 /\ From = c /\ cpc[c] = "put_final" /\ cpc[c] \in Waiting
  BY <1>1, BlockTaken DEF Waiting
<1> DEFINE ds == <<FullMsg("put_successful")>>
<1>3. ds \in Seq(ToClients) /\ Len(ds) = 1
  BY MessagesAre DEF Told
<1>4. ToClient(c, ds)
  BY <1>1, <1>2
<1> HIDE DEF ds
<1>5. Answered(c, ds)
  <2>1. spc' \in {"top", "put_small", "put_large", "get_ack"} /\ spc' \notin InPut
    BY <1>1 DEF InPut
  <2> QED BY <1>1, <1>2, <1>3, <1>4, <2>1, Answering
<1>6. AtPutFinal(c)'
  BY <1>1, <1>3, <1>5 DEF AtPutFinal, Answered, Taken
<1> QED BY <1>1, <1>2, <1>5, <1>6 DEF Answered, Order, PhaseOk

LEMMA ServePutLargeOrder ==
  ASSUME TypeInv, NEW c \in Client, Order(c), ServePutLarge
  PROVE  Order(c)'
<1> DEFINE received == sdone + Len(Here.bytes)
<1>1. /\ sq # <<>> /\ sq' = Tail(sq) /\ UNCHANGED client /\ spc = "put_large"
  BY DEF ServePutLarge, Takes
<1>2. /\ Len(sq) = 1 /\ From = c /\ cpc[c] = "put_ack" /\ cpc[c] \in Waiting
      /\ Len(Here.bytes) > 0 /\ sdone + Len(Here.bytes) + Len(rest[c]) = sneed
      /\ Here \in Datagram
  BY <1>1, BlockTaken DEF Waiting
<1>3. /\ received \in Nat /\ sneed \in Nat /\ Len(rest[c]) \in Nat /\ rest[c] \in Data
      /\ received + Len(rest[c]) = sneed
  <2>1. sdone \in Nat /\ sneed \in Nat /\ rest[c] \in Data
    BY TypeParts DEF ServerTypes, ClientTypes
  <2> DEFINE n == Len(Here.bytes)
             r == Len(rest[c])
  <2>2. n \in Nat /\ r \in Nat
    BY <1>2, <2>1, DatagramIs, DataIs
  <2>3. sdone + n + r = sneed
    BY <1>2
  <2> HIDE DEF n, r
  <2>4. sdone + n \in Nat /\ (sdone + n) + r = sneed
    BY <2>1, <2>2, <2>3
  <2> QED BY <2>1, <2>2, <2>4 DEF n, r
<1>4. CASE received < sneed
  <2> DEFINE ds == <<Ack>>
  <2>1. ds \in Seq(ToClients) /\ Len(ds) = 1
    BY MessagesAre
  <2>2. /\ ToClient(c, ds) /\ sdone' = received /\ spc' = "put_large" /\ stimer' = STimeout
        /\ sneed' = sneed
    BY <1>2, <1>4 DEF ServePutLarge, Goto, InPut
  <2> HIDE DEF ds, received
  <2>3. Answered(c, ds)
    <3>1. spc' \in {"top", "put_small", "put_large", "get_ack"}
      BY <2>2
    <3> QED BY <1>1, <1>2, <2>1, <2>2, <3>1, Answering
  <2>4. Len(rest[c]) > 0 /\ received + Len(rest[c]) = sneed
    BY <1>3, <1>4
  <2>5. AtPutAck(c)'
    BY <2>1, <2>2, <2>3, <2>4 DEF AtPutAck, Answered, Taken
  <2> QED BY <1>2, <2>2, <2>3, <2>5 DEF Answered, Order, PhaseOk
<1>5. CASE ~(received < sneed)
  <2> DEFINE ds == <<Ack, FullMsg("put_successful")>>
  <2>1. ds \in Seq(ToClients) /\ Len(ds) = 2
    BY MessagesAre DEF Told
  <2>2. ToClient(c, ds) /\ spc' = "top"
    BY <1>2, <1>5 DEF ServePutLarge, Goto
  <2> HIDE DEF ds, received
  <2>3. Answered(c, ds)
    <3>1. spc' \in {"top", "put_small", "put_large", "get_ack"} /\ spc' \notin InPut
      BY <2>2 DEF InPut
    <3> QED BY <1>1, <1>2, <2>1, <2>2, <3>1, Answering
  <2>4. rest[c] = <<>>
    <3>1. Len(rest[c]) = 0
      BY <1>3, <1>5
    <3> QED BY <1>3, <3>1, EmptyOrNot DEF Data
  <2>5. AtPutAck(c)'
    BY <2>1, <2>2, <2>3, <2>4 DEF AtPutAck, Answered, Taken
  <2> QED BY <1>2, <2>2, <2>3, <2>5 DEF Answered, Order, PhaseOk
<1> QED BY <1>4, <1>5

\* What the server does not understand does not come.
LEMMA ServeNoneOrder ==
  ASSUME TypeInv, NEW c \in Client, Order(c)
  PROVE  ~ServeOther /\ ~ServeEmpty
<1>1. ASSUME sq # <<>>, spc = "top" PROVE Here.t \in Commands /\ Here.bytes # <<>>
  <2>1. Here.t \in Commands
    BY <1>1 DEF Order, HeadOk
  <2>2. Here \in ToServers
    BY <1>1, ServerTakes, TypeParts
  <2> QED BY <2>1, <2>2 DEF ToServers
<1> QED BY <1>1 DEF ServeOther, ServeEmpty, Takes

\* Nobody waits in vain, so nothing times out.
LEMMA NoTimeouts ==
  ASSUME TypeInv, NEW c \in Client, Order(c)
  PROVE  /\ \A state \in InPut : ~ServerTimesOut(state)
         /\ \A state \in Waiting : ~TimesOut(c, state)
BY DEF Order, Prompt, ServerTimesOut, TimesOut, STimeout, CTimeout

LEMMA ServerOrder ==
  ASSUME TypeInv, OrderInv, ServerStep
  PROVE  OrderInv'
<1> SUFFICES ASSUME faults' = 0, NEW c \in Client, ~odd'[c]
             PROVE  Order(c)'
  BY DEF OrderInv
<1>1. faults \in Nat /\ (UNCHANGED hist \/ \E state \in InPut : ServerTimesOut(state))
  <2>1. faults \in Nat
    BY TypeParts DEF HistTypes
  <2>2. ASSUME ServeGet \/ ServeGetNoFile \/ ServeAck \/ ServePut \/ ServePutSize
                 \/ ServePutNoFile \/ ServePutSmall \/ ServePutLarge
        PROVE  UNCHANGED hist
    BY <2>2 DEF ServeGet, ServeGetNoFile, ServeAck, ServePut, ServePutSize, ServePutNoFile,
                ServePutSmall, ServePutLarge, Takes
  <2>3. ASSUME ServeDelete \/ ServeListOrExit \/ ServeOther \/ ServeEmpty
        PROVE  UNCHANGED hist
    BY <2>3 DEF ServeDelete, ServeListOrExit, ServeOther, ServeEmpty, Takes
  <2>4. ASSUME PutSizeTimesOut \/ PutSmallTimesOut \/ PutLargeTimesOut
        PROVE  \E state \in InPut : ServerTimesOut(state)
    BY <2>4 DEF PutSizeTimesOut, PutSmallTimesOut, PutLargeTimesOut, InPut
  <2> QED BY <2>1, <2>2, <2>3, <2>4 DEF ServerStep
<1>2. faults = 0 /\ ~odd[c]
  BY <1>1 DEF hist, ServerTimesOut
<1>3. Order(c)
  BY <1>2 DEF OrderInv
<1>4. ~PutSizeTimesOut /\ ~PutSmallTimesOut /\ ~PutLargeTimesOut
  BY <1>3, NoTimeouts DEF PutSizeTimesOut, PutSmallTimesOut, PutLargeTimesOut, InPut
<1> QED BY <1>3, <1>4, ServeGetOrder, ServeReplyOrder, ServePutOrder, ServeAckOrder,
           ServePutSizeOrder, ServePutSmallOrder, ServePutLargeOrder, ServeNoneOrder
        DEF ServerStep

(* ------------------------- a client alone: answers --------------------- *)

\* The client takes an answer when the server has nothing to do.
Took1(c) ==
  /\ sq = <<>> /\ sq' = sq /\ cq'[c] = Tail(cq[c]) /\ UNCHANGED server
  /\ Alone(c)' /\ Prompt(c)' /\ Orderly(sq)' /\ HeadOk'
  /\ Len(cq[c]) \in Nat \ {0} /\ Len(cq'[c]) = Len(cq[c]) - 1 /\ Got(c) = cq[c][1]
  /\ Len(cq[c]) = 1 => cq'[c] = <<>>
  /\ Len(cq[c]) = 2 => cq'[c][1] = cq[c][2]
LEMMA Taking ==
  ASSUME TypeInv, NEW c \in Client, Order(c), cq[c] # <<>>, sq = <<>>, sq' = sq, Took(c),
         UNCHANGED server, \A d \in Client \ {c} : cpc'[d] = cpc[d],
         cpc'[c] \in Waiting => ctimer'[c] = CTimeout
  PROVE  Took1(c)
<1>1. QueuesOk /\ Alone(c) /\ Prompt(c) /\ HeadOk /\ spc' = spc /\ stimer' = stimer
  BY TypeParts DEF Order, server
<1>2. cq[c] \in Seq(ToClients)
  BY <1>1 DEF QueuesOk
<1>3. cq'[c] = Tail(cq[c]) /\ \A d \in Client \ {c} : cq'[d] = cq[d]
  BY <1>1 DEF Took, QueuesOk
<1>4. /\ Len(cq[c]) \in Nat \ {0} /\ Len(Tail(cq[c])) = Len(cq[c]) - 1
      /\ Tail(cq[c]) \in Seq(ToClients) /\ Head(cq[c]) = cq[c][1]
      /\ Len(cq[c]) = 2 => Tail(cq[c])[1] = cq[c][2]
  BY <1>2
<1>5. Len(cq[c]) = 1 => Tail(cq[c]) = <<>>
  <2>1. Len(cq[c]) = 1 => Len(Tail(cq[c])) = 0
    BY <1>4
  <2>2. Tail(cq[c]) = <<>> <=> Len(Tail(cq[c])) = 0
    BY <1>4, EmptyOrNot
  <2> QED BY <2>1, <2>2
<1>6. Alone(c)' /\ Prompt(c)'
  BY <1>1, <1>3 DEF Alone, Prompt
<1>7. Orderly(sq)' /\ HeadOk'
  BY <1>1 DEF Orderly, HeadOk
<1> QED BY <1>3, <1>4, <1>5, <1>6, <1>7 DEF Took1, Got

\* The answer to get, and what follows it.
LEMMA GetSizeOrder ==
  ASSUME TypeInv, NEW c \in Client, Order(c), GetNoFile(c) \/ GetSize(c)
  PROVE  Order(c)'
<1>1. /\ cq[c] # <<>> /\ cpc[c] = "get_size" /\ Took(c) /\ sq' = sq /\ UNCHANGED server
      /\ ClientTypes /\ QueuesOk /\ PhaseOk(c)
  BY TypeParts DEF GetNoFile, GetSize, Receives, Keeps, Order
<1>2. sq = <<>> /\ \A s : ~Queued(c, s)
  BY <1>1 DEF PhaseOk, AtGetSize, Queued, Taken
<1>3. AtGetSize(c)
  BY <1>1 DEF PhaseOk
<1>4. Got(c) = cq[c][1] /\ Got(c) \in Datagram
  <2>1. cq[c] \in Seq(ToClients) /\ Got(c) \in Datagram
    BY <1>1, ClientTakes DEF QueuesOk
  <2> QED BY <1>1, <2>1, EmptyOrNot DEF Got
<1>5. CASE GetNoFile(c)
  <2>1. cpc' = [cpc EXCEPT ![c] = "prompt"] /\ Got(c).t = "no_file"
    BY <1>5 DEF GetNoFile, Tells
  <2>2. cpc'[c] = "prompt" /\ cpc'[c] \notin Waiting /\ \A d \in Client \ {c} : cpc'[d] = cpc[d]
    BY <1>1, <2>1 DEF ClientTypes, Waiting
  <2>3. Took1(c)
    BY <1>1, <1>2, <2>2, Taking
  <2>4. Taken(c, 1) /\ spc = "top"
    BY <1>2, <1>3, <1>4, <2>1 DEF AtGetSize
  <2>5. sq' = <<>> /\ cq'[c] = <<>> /\ spc' = "top"
    BY <2>3, <2>4 DEF Took1, Taken, server
  <2>6. AtPrompt(c)'
    BY <2>5 DEF AtPrompt
  <2> QED BY <2>2, <2>3, <2>5, <2>6 DEF Took1, Order, PhaseOk
<1>6. CASE GetSize(c)
  <2> DEFINE n == Number(Got(c))
             state == IF IsShort(n) THEN "get_small" ELSE "get_large"
  <2>1. /\ cpc' = [cpc EXCEPT ![c] = state] /\ ctimer' = [ctimer EXCEPT ![c] = CTimeout]
        /\ need' = [need EXCEPT ![c] = n] /\ done' = [done EXCEPT ![c] = 0]
        /\ Got(c).t # "no_file"
    BY <1>6 DEF GetSize, WaitIn
  <2>2. /\ cpc'[c] = state /\ \A d \in Client \ {c} : cpc'[d] = cpc[d]
        /\ ctimer'[c] = CTimeout /\ need'[c] = n /\ done'[c] = 0
    BY <1>1, <2>1 DEF ClientTypes
  <2>3. Took1(c)
    BY <1>1, <1>2, <2>2, Taking
  <2>4. /\ Taken(c, 2) /\ Got(c).t = "size"
        /\ IF IsShort(Got(c).n) THEN spc = "top"
           ELSE /\ spc = "get_ack" /\ Len(cq[c][2].bytes) > 0
                /\ Len(cq[c][2].bytes) + Len(srest) = Got(c).n
    BY <1>2, <1>3, <1>4, <2>1 DEF AtGetSize
  <2>5. n = Got(c).n
    BY <1>4, <2>4, DatagramIs
  <2>6. sq' = <<>> /\ Len(cq'[c]) = 1 /\ cq'[c][1] = cq[c][2] /\ spc' = spc /\ srest' = srest
    BY <2>3, <2>4 DEF Took1, Taken, server
  <2> HIDE DEF n
  <2>7. CASE IsShort(n)
    <3>1. spc' = "top" /\ cpc'[c] = "get_small"
      BY <2>2, <2>4, <2>5, <2>6, <2>7
    <3>2. AtGetSmall(c)'
      BY <2>6, <3>1 DEF AtGetSmall, Taken
    <3> QED BY <2>3, <2>6, <3>1, <3>2 DEF Took1, Order, PhaseOk
  <2>8. CASE ~IsShort(n)
    <3> DEFINE b == cq[c][2].bytes
    <3>1. /\ spc' = "get_ack" /\ cpc'[c] = "get_large" /\ Len(b) > 0 /\ Len(b) + Len(srest) = n
      BY <2>2, <2>4, <2>5, <2>6, <2>8
    <3>2. cq'[c][1].bytes = b
      BY <2>6
    <3>3. Len(b) \in Nat /\ Len(srest) \in Nat
      <4>1. srest \in Data
        BY TypeParts DEF ServerTypes
      <4>2. cq[c] \in Seq(ToClients) /\ Len(cq[c]) = 2
        BY <1>1, <2>4 DEF QueuesOk, Taken
      <4>3. cq[c][2] \in Datagram
        <5>1. \A i \in 1..Len(cq[c]) : cq[c][i] \in ToClients
          BY <4>2
        <5> QED BY <4>2, <5>1 DEF ToClients
      <4> QED BY <4>1, <4>3, DatagramIs, DataIs
    <3> HIDE DEF b
    <3>4. done'[c] + Len(b) + Len(srest') = need'[c]
      BY <2>2, <2>6, <3>1, <3>3
    <3>5. AtGetLarge(c)'
      BY <2>6, <3>1, <3>2, <3>4 DEF AtGetLarge, Taken
    <3> QED BY <2>3, <2>6, <3>1, <3>5 DEF Took1, Order, PhaseOk
  <2> QED BY <2>7, <2>8
<1> QED BY <1>5, <1>6

\* The last answer: back to the prompt, or out of the program.
LEMMA AnswerOrder ==
  ASSUME TypeInv, NEW c \in Client, Order(c), GetSmall(c) \/ Replied(c) \/ Exited(c)
  PROVE  Order(c)'
<1>1. /\ cpc[c] \in {"get_small", "put_final", "reply"} /\ sq' = sq /\ UNCHANGED server
      /\ cq[c] # <<>> /\ ClientTypes /\ QueuesOk /\ PhaseOk(c)
  BY TypeParts DEF GetSmall, Replied, Exited, Receives, Keeps, Order
<1>2. sq = <<>> /\ Taken(c, 1) /\ spc = "top"
  BY <1>1 DEF PhaseOk, AtGetSmall, AtPutFinal, AtReply, Queued, Taken
<1>3. /\ cpc'[c] \in {"prompt", "gone"} /\ cpc'[c] \notin Waiting
      /\ \A d \in Client \ {c} : cpc'[d] = cpc[d]
  <2>1. cpc' = [cpc EXCEPT ![c] = "prompt"] \/ cpc' = [cpc EXCEPT ![c] = "gone"]
    BY DEF GetSmall, Replied, Exited, Tells
  <2> QED BY <1>1, <2>1 DEF ClientTypes, Waiting
<1>4. Took(c)
  <2>1. CASE Exited(c)
    <3>1. Tail(cq[c]) = <<>>
      <4>1. cq[c] \in Seq(ToClients) /\ Len(cq[c]) = 1
        BY <1>1, <1>2 DEF QueuesOk, Taken
      <4>2. Tail(cq[c]) \in Seq(ToClients) /\ Len(Tail(cq[c])) = 0
        BY <1>1, <4>1
      <4> QED BY <4>2, EmptyOrNot
    <3> QED BY <2>1, <3>1 DEF Exited, Took
  <2> QED BY <2>1 DEF GetSmall, Replied
<1>5. Took1(c)
  BY <1>1, <1>2, <1>3, <1>4, Taking
<1>6. sq' = <<>> /\ cq'[c] = <<>> /\ spc' = "top"
  BY <1>2, <1>5 DEF Took1, Taken, server
<1>7. AtPrompt(c)'
  BY <1>6 DEF AtPrompt
<1> QED BY <1>3, <1>5, <1>6, <1>7 DEF Took1, Order, PhaseOk

\* The client sends one datagram, and nothing else is on its way.
OneQueued(c, d) ==
  /\ sq' # <<>> /\ Last(sq)' = d /\ Here' = d /\ Orderly(sq)' /\ NoAck(sq')
  /\ \A i \in 1..Len(sq') : sq'[i].from = c
LEMMA OneSent ==
  ASSUME TypeInv, NEW c \in Client, sq = <<>>, spc # "dead", NEW d \in ToServers,
         ToServer(c, <<d>>), d.t \in {"ack", "block"}
  PROVE  OneQueued(c, d)
<1> DEFINE ds == <<d>>
<1>1. ds \in Seq(ToServers) /\ Len(ds) = 1 /\ ds[1] = d /\ ToServer(c, ds)
  OBVIOUS
<1> HIDE DEF ds
<1>2. PICK e \in Seq(Sent) : sq' = sq \o e /\ SentAs(c, ds, e)
  BY <1>1, Sending
<1>3. Len(ds) \in Nat \ {0} /\ 1 \in 1..Len(ds)
  BY <1>1
<1>4. /\ e # <<>> /\ Len(e) = Len(ds) /\ e[1].d = ds[1]
      /\ \A i \in 1..Len(e) : e[i].from = c
  BY <1>2, <1>3, SentAsIs
<1>5. sq' = e
  BY <1>2, ConcatEmptySeq
<1>6. Len(sq') = 1 /\ sq'[1].d = d /\ sq' # <<>> /\ Head(sq') = sq'[1]
  BY <1>1, <1>4, <1>5, EmptyOrNot
<1>7. Follows(sq', 1)
  BY <1>6 DEF Follows, Commands
<1>8. Orderly(sq)'
  <2>1. \A i \in 1..Len(sq') : i = 1
    BY <1>6
  <2> QED BY <1>7, <2>1 DEF Orderly, Follows
<1>9. Last(sq)' = d /\ Here' = d
  BY <1>6 DEF Last, Here
<1>10. NoAck(sq')
  <2>1. \A i \in 2..Len(sq') : FALSE
    BY <1>6
  <2> QED BY <2>1 DEF NoAck
<1>11. \A i \in 1..Len(sq') : sq'[i].from = c
  BY <1>4, <1>5
<1> QED BY <1>6, <1>8, <1>9, <1>10, <1>11 DEF OneQueued

LEMMA GetLargeOrder ==
  ASSUME TypeInv, NEW c \in Client, Order(c), GetLarge(c)
  PROVE  Order(c)'
<1> DEFINE n == Len(Got(c).bytes)
           r == Len(srest)
           received == done[c] + n
<1>1. /\ cq[c] # <<>> /\ cpc[c] = "get_large" /\ Took(c) /\ UNCHANGED server
      /\ ToServer(c, <<Ack>>) /\ done' = [done EXCEPT ![c] = received] /\ need' = need
      /\ ClientTypes /\ ServerTypes /\ QueuesOk /\ PhaseOk(c) /\ Alone(c) /\ Prompt(c)
  BY TypeParts DEF GetLarge, Receives, Keeps, Order
<1>2. cq[c] \in Seq(ToClients) /\ Got(c) \in Datagram /\ Got(c) = cq[c][1]
  BY <1>1, ClientTakes, EmptyOrNot DEF QueuesOk, Got
<1>3. /\ sq = <<>> /\ Len(cq[c]) = 1 /\ spc = "get_ack" /\ n > 0
      /\ done[c] + n + r = need[c]
  BY <1>1, <1>2 DEF PhaseOk, AtGetLarge, Queued, Taken
<1>4. n \in Nat /\ r \in Nat /\ done[c] \in Nat /\ need[c] \in Nat /\ srest \in Data
  <2>1. srest \in Data
    BY <1>1 DEF ServerTypes
  <2> QED BY <1>1, <1>2, <2>1, DatagramIs, DataIs DEF ClientTypes
<1>5. IF received < need[c] THEN WaitIn(c, "get_large") ELSE Tells(c, "get_successful")
  BY DEF GetLarge
<1> HIDE DEF n, r
<1>6. /\ cpc'[c] = IF received < need[c] THEN "get_large" ELSE "prompt"
      /\ cpc'[c] \in Waiting => ctimer'[c] = CTimeout
      /\ \A d \in Client \ {c} : cpc'[d] = cpc[d]
  BY <1>1, <1>5 DEF WaitIn, Tells, ClientTypes, Waiting
<1>7. OneQueued(c, Ack)
  <2>1. Ack \in ToServers /\ Ack.t \in {"ack", "block"} /\ spc # "dead"
    BY <1>3, MessagesAre, MessageIs
  <2> QED BY <1>1, <1>3, <2>1, OneSent
<1>8. cq'[c] = <<>> /\ \A d \in Client \ {c} : cq'[d] = cq[d]
  <2>1. cq'[c] = Tail(cq[c]) /\ \A d \in Client \ {c} : cq'[d] = cq[d]
    BY <1>1 DEF Took, QueuesOk
  <2>2. Tail(cq[c]) \in Seq(ToClients) /\ Len(Tail(cq[c])) = 0
    BY <1>1, <1>2, <1>3
  <2> QED BY <2>1, <2>2, EmptyOrNot
<1>9. spc' = "get_ack" /\ srest' = srest /\ stimer' = stimer
  BY <1>1, <1>3 DEF server
<1>10. Alone(c)' /\ Prompt(c)'
  <2>1. \A i \in 1..Len(sq') : sq'[i].from = c
    BY <1>7 DEF OneQueued
  <2>2. \A d \in Client \ {c} : cpc'[d] \notin Waiting /\ cq'[d] = <<>>
    BY <1>1, <1>6, <1>8 DEF Alone
  <2>3. spc' \notin InPut
    BY <1>9 DEF InPut
  <2> QED BY <1>6, <2>1, <2>2, <2>3 DEF Alone, Prompt
<1>11. Orderly(sq)' /\ HeadOk'
  <2>1. Here'.t = "ack"
    BY <1>7, MessageIs DEF OneQueued
  <2> QED BY <1>7, <1>9, <2>1 DEF OneQueued, HeadOk, NoAck
<1>12. Last(sq)'.t = "ack" /\ sq' # <<>>
  BY <1>7, MessageIs DEF OneQueued
<1>13. CASE received < need[c]
  <2>1. r > 0 /\ done'[c] + r = need'[c]
    BY <1>1, <1>3, <1>4, <1>13 DEF ClientTypes
  <2>2. AtGetLarge(c)'
    BY <1>8, <1>9, <1>12, <2>1 DEF AtGetLarge, Queued, r
  <2> QED BY <1>6, <1>10, <1>11, <1>13, <2>2 DEF Order, PhaseOk
<1>14. CASE ~(received < need[c])
  <2>1. srest = <<>>
    <3>1. r = 0
      BY <1>3, <1>4, <1>14
    <3> QED BY <1>4, <3>1, EmptyOrNot DEF r, Data
  <2>2. AtPrompt(c)'
    BY <1>8, <1>12 DEF AtPrompt
  <2> QED BY <1>6, <1>9, <1>10, <1>11, <1>14, <2>1, <2>2 DEF Order, PhaseOk
<1> QED BY <1>13, <1>14

LEMMA PutAckOrder ==
  ASSUME TypeInv, NEW c \in Client, Order(c), PutAck(c)
  PROVE  Order(c)'
<1>1. /\ cq[c] # <<>> /\ cpc[c] = "put_ack" /\ Took(c) /\ UNCHANGED server /\ NextBlock(c)
      /\ ClientTypes /\ ServerTypes /\ QueuesOk /\ PhaseOk(c) /\ Alone(c) /\ Prompt(c)
  BY TypeParts DEF PutAck, Receives, Keeps, Order
<1>2. sq = <<>> /\ \/ /\ Taken(c, 1) /\ spc = "put_large"
                      /\ Len(rest[c]) > 0 /\ sdone + Len(rest[c]) = sneed
                   \/ Taken(c, 2) /\ spc = "top" /\ rest[c] = <<>>
  BY <1>1 DEF PhaseOk, AtPutAck, Queued, Taken
<1>3. cq[c] \in Seq(ToClients) /\ rest[c] \in Data
  BY <1>1 DEF QueuesOk, ClientTypes
<1>4. cq'[c] = Tail(cq[c]) /\ \A d \in Client \ {c} : cq'[d] = cq[d]
  BY <1>1 DEF Took, QueuesOk
<1>5. CASE Len(rest[c]) > 0
  <2> DEFINE b == FirstBlock(rest[c])
             a == AfterBlock(rest[c])
  <2>1. /\ b \in Data /\ Len(b) \in Nat /\ Len(a) \in Nat /\ Len(b) > 0
        /\ Len(b) + Len(a) = Len(rest[c])
    BY <1>3, <1>5, BlocksAre, DataIs
  <2>2. /\ Taken(c, 1) /\ spc = "put_large" /\ sdone + Len(rest[c]) = sneed /\ rest[c] # <<>>
    BY <1>2, <1>5
  <2>3. /\ ToServer(c, <<Block(b)>>) /\ rest' = [rest EXCEPT ![c] = a] /\ WaitIn(c, "put_ack")
    BY <1>1, <2>2 DEF NextBlock
  <2> HIDE DEF a, b
  <2>4. /\ cpc'[c] = "put_ack" /\ ctimer'[c] = CTimeout /\ rest'[c] = a
        /\ \A d \in Client \ {c} : cpc'[d] = cpc[d]
    BY <1>1, <2>3 DEF WaitIn, ClientTypes
  <2>5. OneQueued(c, Block(b))
    <3>1. Block(b) \in ToServers /\ Block(b).t \in {"ack", "block"} /\ spc # "dead"
      BY <2>1, <2>2, MessagesAre, MessageIs
    <3> QED BY <1>2, <2>3, <3>1, OneSent
  <2>6. cq'[c] = <<>>
    <3>1. Tail(cq[c]) \in Seq(ToClients) /\ Len(Tail(cq[c])) = 0
      BY <1>1, <1>3, <2>2 DEF Taken
    <3> QED BY <1>4, <3>1, EmptyOrNot
  <2>7. spc' = "put_large" /\ sdone' = sdone /\ sneed' = sneed /\ stimer' = stimer /\ spc' = spc
    BY <1>1, <2>2 DEF server
  <2>8. Alone(c)' /\ Prompt(c)'
    BY <1>1, <1>4, <2>4, <2>5, <2>6, <2>7 DEF Alone, Prompt, OneQueued
  <2>9. /\ sq' # <<>> /\ Here'.t = "block" /\ Last(sq)'.t = "block" /\ Last(sq)'.bytes = b
        /\ NoAck(sq') /\ Orderly(sq)'
    BY <2>5, MessageIs DEF OneQueued
  <2>10. HeadOk'
    BY <2>7, <2>9 DEF HeadOk, NoAck
  <2>11. sdone' + Len(b) + Len(a) = sneed'
    <3>1. sdone \in Nat
      BY <1>1 DEF ServerTypes
    <3> QED BY <2>1, <2>2, <2>7, <3>1
  <2>12. AtPutAck(c)'
    BY <2>1, <2>4, <2>6, <2>7, <2>9, <2>11 DEF AtPutAck, Queued
  <2> QED BY <2>4, <2>7, <2>8, <2>9, <2>10, <2>12 DEF Order, PhaseOk
<1>6. CASE rest[c] = <<>>
  <2>1. Taken(c, 2) /\ spc = "top"
    BY <1>2, <1>6
  <2>2. WaitIn(c, "put_final") /\ sq' = sq
    BY <1>1, <1>6 DEF NextBlock
  <2>3. /\ cpc'[c] = "put_final" /\ ctimer'[c] = CTimeout
        /\ \A d \in Client \ {c} : cpc'[d] = cpc[d]
    BY <1>1, <2>2 DEF WaitIn, ClientTypes
  <2>4. Took1(c)
    BY <1>1, <1>2, <2>2, <2>3, Taking
  <2>5. sq' = <<>> /\ Len(cq'[c]) = 1 /\ spc' = "top"
    BY <2>1, <2>4 DEF Took1, Taken, server
  <2>6. AtPutFinal(c)'
    BY <2>5 DEF AtPutFinal, Taken
  <2> QED BY <2>3, <2>4, <2>5, <2>6 DEF Took1, Order, PhaseOk
<1> QED BY <1>2, <1>5, <1>6

LEMMA ClientOrder ==
  ASSUME TypeInv, OrderInv, NEW d \in Client, ClientStep(d)
  PROVE  OrderInv'
<1> SUFFICES ASSUME faults' = 0, NEW c \in Client, ~odd'[c]
             PROVE  Order(c)'
  BY DEF OrderInv
<1>1. cpc[d] \in Waiting /\ (UNCHANGED hist \/ \E state \in Waiting : TimesOut(d, state))
  <2>1. ASSUME GetNoFile(d) \/ GetSize(d) \/ GetSmall(d) \/ GetLarge(d)
        PROVE  UNCHANGED hist /\ cpc[d] \in Waiting
    BY <2>1 DEF GetNoFile, GetSize, GetSmall, GetLarge, Keeps, Receives, Waiting
  <2>2. ASSUME PutAck(d) \/ Replied(d) \/ Exited(d)
        PROVE  UNCHANGED hist /\ cpc[d] \in Waiting
    BY <2>2 DEF PutAck, Replied, Exited, Keeps, Receives, Waiting
  <2>3. ASSUME \/ GetTimesOut(d) \/ GetSmallTimesOut(d) \/ GetLargeTimesOut(d)
               \/ PutAckTimesOut(d) \/ ReplyTimesOut(d)
        PROVE  \E state \in Waiting : TimesOut(d, state)
    BY <2>3 DEF GetTimesOut, GetSmallTimesOut, GetLargeTimesOut, PutAckTimesOut, ReplyTimesOut,
                Waiting
  <2>4. (\E state \in Waiting : TimesOut(d, state)) => cpc[d] \in Waiting
    BY DEF TimesOut
  <2> QED BY <2>1, <2>2, <2>3, <2>4 DEF ClientStep
<1>2. faults \in Nat
  BY TypeParts DEF HistTypes
<1>3. faults = 0 /\ ~odd[c]
  BY <1>1, <1>2 DEF hist, TimesOut
<1>4. Order(c)
  BY <1>3 DEF OrderInv
<1>5. d = c
  BY <1>1, <1>4 DEF Order, Alone
<1>6. /\ ~GetTimesOut(c) /\ ~GetSmallTimesOut(c) /\ ~GetLargeTimesOut(c)
      /\ ~PutAckTimesOut(c) /\ ~ReplyTimesOut(c)
  BY <1>4, NoTimeouts DEF GetTimesOut, GetSmallTimesOut, GetLargeTimesOut, PutAckTimesOut,
     ReplyTimesOut, Waiting
<1> QED BY <1>4, <1>5, <1>6, GetSizeOrder, AnswerOrder, GetLargeOrder, PutAckOrder DEF ClientStep

(* ----------------------- a client alone: the network ------------------- *)

\* Something is always under way when somebody waits, so that no time passes.
LEMMA TickOrder ==
  ASSUME TypeInv, OrderInv, Tick
  PROVE  OrderInv'
<1> SUFFICES ASSUME faults' = 0, NEW c \in Client, ~odd'[c]
             PROVE  FALSE
  BY DEF OrderInv
<1>1. faults \in Nat
  BY TypeParts DEF HistTypes
<1>2. /\ faults = 0 /\ ~odd[c] /\ sq = <<>>
      /\ \A d \in Client : cpc[d] \in Waiting => cq[d] = <<>>
      /\ spc \in InPut \/ \E d \in Client : cpc[d] \in Waiting
  BY <1>1 DEF Tick
<1>3. Alone(c) /\ HeadOk /\ PhaseOk(c) /\ cpc[c] \in Waiting \cup {"prompt", "gone"}
  BY <1>2, TypeParts DEF OrderInv, Order, PhaseOk, ClientTypes
<1>4. cpc[c] \notin Waiting
  <2> SUFFICES ASSUME cpc[c] \in Waiting PROVE FALSE
    OBVIOUS
  <2>1. cq[c] = <<>> /\ Len(cq[c]) = 0
    BY <1>2
  <2>2. ~Taken(c, 1) /\ ~Taken(c, 2) /\ \A s : ~Queued(c, s)
    BY <1>2, <2>1 DEF Taken, Queued
  <2> QED BY <1>3, <2>2 DEF PhaseOk, AtReply, AtGetSize, AtGetSmall, AtGetLarge, AtPutAck,
             AtPutFinal, Waiting
<1>5. AtPrompt(c) /\ spc = "top"
  BY <1>2, <1>3, <1>4 DEF PhaseOk, AtPrompt
<1> QED BY <1>2, <1>3, <1>4, <1>5 DEF Alone, InPut

LEMMA OrderInit == Init => OrderInv
<1> SUFFICES ASSUME Init, NEW c \in Client PROVE Order(c)
  BY DEF OrderInv
<1>1. /\ cpc = [d \in Client |-> "prompt"] /\ cq = [d \in Client |-> <<>>]
      /\ sq = <<>> /\ spc = "top"
  BY DEF Init, Start
<1>2. Quiet /\ cpc[c] = "prompt"
  BY <1>1 DEF Quiet, Waiting
<1> QED BY <1>2, TypeInit, QuietIsReady DEF Ready

LEMMA OrderStep == TypeInv /\ OrderInv /\ [Next]_vars => OrderInv'
<1> SUFFICES ASSUME TypeInv, OrderInv, [Next]_vars PROVE OrderInv'
  OBVIOUS
<1>1. CASE UNCHANGED vars
  <2>1. /\ cpc' = cpc /\ ctimer' = ctimer /\ rest' = rest /\ done' = done /\ need' = need
        /\ spc' = spc /\ stimer' = stimer /\ srest' = srest /\ sneed' = sneed /\ sdone' = sdone
        /\ sq' = sq /\ cq' = cq /\ faults' = faults /\ odd' = odd
    BY <1>1 DEF vars, client, transfer, server, hist
  <2>2. ASSUME NEW c \in Client, Order(c) PROVE Order(c)'
    <3>1. Alone(c)' /\ Prompt(c)' /\ Orderly(sq)' /\ HeadOk'
      BY <2>1, <2>2 DEF Order, Alone, Prompt, Orderly, Follows, HeadOk, Here
    <3>2. Last(sq)' = Last(sq) /\ SizeQueued' = SizeQueued /\ (BeforeBlock' <=> BeforeBlock)
      BY <2>1 DEF Last, SizeQueued, BeforeBlock
    <3>3. /\ \A n : Taken(c, n)' <=> Taken(c, n)
          /\ \A types : Queued(c, types)' <=> Queued(c, types)
      BY <2>1, <3>2 DEF Taken, Queued
    <3>4. PhaseOk(c)
      BY <2>2 DEF Order
    <3>5. (AtPrompt(c) => AtPrompt(c)') /\ (AtReply(c) => AtReply(c)')
      BY <2>1, <3>2, <3>3 DEF AtPrompt, AtReply
    <3>6. (AtGetSize(c) => AtGetSize(c)') /\ (AtGetSmall(c) => AtGetSmall(c)')
      BY <2>1, <3>3 DEF AtGetSize, AtGetSmall, IsShort
    <3>7. AtGetLarge(c) => AtGetLarge(c)'
      BY <2>1, <3>3 DEF AtGetLarge
    <3>8. AtPutAck(c) => AtPutAck(c)'
      BY <2>1, <3>2, <3>3 DEF AtPutAck, IsShort
    <3>9. AtPutFinal(c) => AtPutFinal(c)'
      BY <2>1, <3>2, <3>3 DEF AtPutFinal, IsShort
    <3>10. PhaseOk(c)'
      BY <2>1, <3>4, <3>5, <3>6, <3>7, <3>8, <3>9 DEF PhaseOk
    <3> QED BY <3>1, <3>10 DEF Order
  <2> QED BY <2>1, <2>2 DEF OrderInv
<1>2. CASE Lose \/ Reorder \/ Duplicate
  <2>1. faults \in Nat /\ faults' = faults + 1
    <3>1. \A kind : Fault(kind) => faults' = faults + 1
      BY DEF Fault
    <3>2. faults' = faults + 1
      BY <1>2, <3>1, Zenon DEF Lose, Reorder, Duplicate
    <3> QED BY <3>2, TypeParts DEF HistTypes
  <2>2. faults' # 0
    BY <2>1
  <2> QED BY <2>2 DEF OrderInv
<1> QED BY <1>1, <1>2, EnterOrder, ServerOrder, ClientOrder, TickOrder DEF Next

\* As long as UDP behaves and users take turns, a client at its prompt has
\* had everything that was sent to it: the next command takes no answer that
\* was meant for the last one.
THEOREM NothingIsLeft == Spec => []NothingLeftOver
<1>1. TypeInv /\ OrderInv => NothingLeftOver
  <2> SUFFICES ASSUME OrderInv, NEW c \in Client, faults = 0, ~odd[c], cpc[c] = "prompt"
               PROVE  cq[c] = <<>>
    BY DEF NothingLeftOver
  <2> QED BY DEF OrderInv, Order, PhaseOk, AtPrompt
<1>2. Spec => [](TypeInv /\ OrderInv)
  BY TypeInit, TypeStep, OrderInit, OrderStep, PTL DEF Spec
<1> QED BY <1>1, <1>2, PTL

(* ------------------- what losses can do to a command ------------------- *)

\* What comes from c; the files a command of c is about.
Of(c, d) == [from |-> c, d |-> d]
Local(c) == dir[c][cfile[c]]
Remote(c) == disk[cfile[c]]
Stored == FullMsg("put_successful")
Fresh(c) == ctimer[c] = CTimeout
Empty(c) == sq = <<>> /\ cq[c] = <<>>
\* The server's timer runs out n seconds after that of c, or later.
Later(c, n) == stimer >= ctimer[c] + n

\* delete: the answer comes when the file is gone.
DeleteOk(c) ==
  \/ cpc[c] = "reply" /\ spc = "top" /\ sq = <<Of(c, Request("delete", cfile[c]))>>
     /\ cq[c] = <<>>
  \/ cpc[c] = "reply" /\ spc = "top" /\ Empty(c)
  \/ cpc[c] = "reply" /\ spc = "top" /\ sq = <<>> /\ Len(cq[c]) = 1 /\ Remote(c) = Absent
  \/ cpc[c] = "prompt" /\ told[c] # "delete_successful"
  \/ cpc[c] = "prompt" /\ spc = "top" /\ sq = <<>> /\ Remote(c) = Absent

\* get: what c waits for is on its way; nothing of it is, and something was
\* lost; or half of it is.
Nothing(c) == lost[c] > 0 /\ Empty(c)
Asking(c) ==
  Fresh(c) /\ sq = <<Of(c, Request("get", cfile[c]))>> /\ cq[c] = <<>> /\ spc = "top"
Refused(c) == sq = <<>> /\ cq[c] = <<Msg("no_file")>> /\ Remote(c) = Absent
Opened(c) ==
  /\ sq = <<>> /\ Remote(c) # Absent
  /\ cq[c] = Opening(Remote(c)) /\ srest = AfterBlock(Remote(c))
  /\ spc = IF IsShort(Len(Remote(c))) THEN "top" ELSE "get_ack"
Halved(c) ==
  /\ lost[c] > 0 /\ sq = <<>> /\ Remote(c) # Absent
  /\ \/ cq[c] = <<SizeMsg(Len(Remote(c)))>>
     \/ Len(cq[c]) = 1 /\ cq[c][1].t = "block"
AskedOk(c) == Asking(c) \/ Refused(c) \/ Opened(c) \/ Halved(c) \/ Nothing(c)
SmallOk(c) ==
  \/ sq = <<>> /\ Remote(c) # Absent /\ cq[c] = <<Block(Remote(c))>>
  \/ Nothing(c)
\* In a long file: a block is on its way, or the ACK for it; or c has part of
\* the file, and will get no more.
Measured(c) == spc = "get_ack" /\ done[c] = Len(Local(c)) /\ need[c] = Len(Remote(c))
BlockComes(c) ==
  /\ Measured(c) /\ sq = <<>> /\ Len(cq[c]) = 1 /\ cq[c][1].bytes # <<>>
  /\ Local(c) \o (cq[c][1].bytes \o srest) = Remote(c)
AckComes(c) ==
  /\ Measured(c) /\ Fresh(c) /\ sq = <<Of(c, Ack)>> /\ cq[c] = <<>> /\ srest # <<>>
  /\ Local(c) \o srest = Remote(c)
Begins(mine, theirs) == Len(mine) < Len(theirs) /\ SubSeq(theirs, 1, Len(mine)) = mine
LargeOk(c) ==
  /\ Remote(c) # Absent
  /\ BlockComes(c) \/ AckComes(c) \/ (Nothing(c) /\ Begins(Local(c), Remote(c)))
GotOk(c) ==
  /\ spc \in {"top", "get_ack", "dead"}
  /\ \A i \in 1..Len(sq) : sq[i].d.t = "ack"
  /\ told[c] = "no_file" => Remote(c) = Absent
  /\ told[c] \in {"get_successful", "lost_get_successful"} =>
       \/ Local(c) = Remote(c)
       \/ lost[c] > 0 /\ (Local(c) = <<Junk>> \/ Begins(Local(c), Remote(c)))
GetOk(c) ==
  \/ /\ spc \in {"top", "get_ack"}
     /\ \/ cpc[c] = "get_size" /\ AskedOk(c)
        \/ cpc[c] = "get_small" /\ SmallOk(c)
        \/ cpc[c] = "get_large" /\ LargeOk(c)
  \/ cpc[c] = "prompt" /\ GotOk(c)
  \/ cpc[c] = "dead"

\* put: all that was sent at first is on its way, but one datagram perhaps.
PutMsg(c) == Of(c, Request("put", cfile[c]))
SizeOf(c) == Of(c, SizeMsg(Len(Local(c))))
FirstOf(c) == Of(c, Block(FirstBlock(Local(c))))
OpensOk(c) ==
  /\ Fresh(c) /\ cq[c] = <<>>
  /\ rest[c] = AfterBlock(Local(c))
  /\ cpc[c] = IF IsShort(Len(Local(c))) THEN "put_final" ELSE "put_ack"
  /\ \/ spc = "top" /\ sq = <<PutMsg(c), SizeOf(c), FirstOf(c)>>
     \/ spc = "top" /\ sq \in {<<PutMsg(c), SizeOf(c)>>, <<PutMsg(c), FirstOf(c)>>} /\ lost[c] > 0
     \/ spc = "put_size" /\ sfile = cfile[c] /\ sq = <<SizeOf(c), FirstOf(c)>>
     \/ /\ spc = "put_size" /\ sfile = cfile[c] /\ lost[c] > 0
        /\ sq \in {<<SizeOf(c)>>, <<FirstOf(c)>>}
\* The server has all that was sent before, and wrote it: a block is on its
\* way, or the ACK for it, or that was lost.
Written(c) ==
  /\ sfile = cfile[c] /\ cpc[c] = "put_ack" /\ spc = "put_large" /\ Remote(c) # Absent
  /\ sdone = Len(Remote(c)) /\ sneed = Len(Local(c))
BlockGoes(c) ==
  /\ Fresh(c) /\ cq[c] = <<>> /\ Len(sq) = 1 /\ sq[1].from = c /\ sq[1].d.t = "block"
DataGoes(c) ==
  /\ Written(c) /\ BlockGoes(c) /\ sq[1].d.bytes # <<>> /\ (lost[c] = 0 => stimer = STimeout)
  /\ Remote(c) \o (sq[1].d.bytes \o rest[c]) = Local(c)
AckBack(c) ==
  /\ Written(c) /\ Fresh(c) /\ stimer = STimeout /\ sq = <<>> /\ cq[c] = <<Ack>>
  /\ rest[c] # <<>> /\ Remote(c) \o rest[c] = Local(c)
AckLost(c) ==
  /\ Written(c) /\ Nothing(c) /\ Later(c, 3)
  /\ rest[c] # <<>> /\ Remote(c) \o rest[c] = Local(c)
ShortGoes(c) ==
  /\ sfile = cfile[c] /\ cpc[c] = "put_final" /\ spc = "put_small"
  /\ Fresh(c) /\ stimer = STimeout
  /\ sq = <<Of(c, Block(Local(c)))>> /\ cq[c] = <<>>
StoredOk(c) ==
  /\ spc = "top" /\ sq = <<>> /\ Remote(c) = Local(c)
  /\ \/ cpc[c] = "put_ack" /\ cq[c] = <<Ack, Stored>> /\ rest[c] = <<>>
     \/ cpc[c] = "put_final" /\ cq[c] = <<Stored>>
\* Of what the server expects more than n units are missing, or it does not
\* know how much to expect: it would say that all is well only after c has
\* given up, or to a client that takes it for an ACK.
Missing(n) == spc = "put_small" \/ (spc = "put_large" /\ sdone + n < sneed)
LackGoes(c) ==
  /\ lost[c] > 0 /\ cpc[c] = "put_ack" /\ BlockGoes(c)
  /\ Missing(Len(sq[1].d.bytes) + Len(rest[c]))
LackAcked(c) ==
  /\ lost[c] > 0 /\ cpc[c] = "put_ack" /\ Fresh(c) /\ stimer = STimeout
  /\ sq = <<>> /\ cq[c] = <<Ack>> /\ Missing(Len(rest[c]))
LackWaits(c) ==
  /\ Nothing(c)
  /\ \/ cpc[c] = "put_ack" /\ Later(c, 3) /\ Missing(Len(rest[c]))
     \/ cpc[c] = "put_final" /\ Later(c, 1) /\ Missing(0)
LastWord(c) ==
  lost[c] > 0 /\ cpc[c] = "put_ack" /\ sq = <<>> /\ Len(cq[c]) = 1 /\ spc = "top"
\* The server is in no put: what comes is ignored.
IgnoredOk(c) ==
  /\ lost[c] > 0 /\ spc \in {"top", "dead"} /\ cpc[c] \in {"put_ack", "put_final"}
  /\ cq[c] = <<>>
  /\ \A i \in 1..Len(sq) : sq[i].d.t \in {"size", "block"}
Putting(c) ==
  \/ OpensOk(c) \/ DataGoes(c) \/ AckBack(c) \/ AckLost(c) \/ ShortGoes(c) \/ StoredOk(c)
  \/ LackGoes(c) \/ LackAcked(c) \/ LackWaits(c) \/ LastWord(c) \/ IgnoredOk(c)
PutOk(c) ==
  \/ cpc[c] \in {"put_ack", "put_final"} /\ Local(c) # Absent /\ Putting(c)
  \/ cpc[c] = "prompt" /\ told[c] # "put_successful"
  \/ cpc[c] = "prompt" /\ spc = "top" /\ sq = <<>> /\ Remote(c) = Local(c)

\* A get and a delete are in order however much was lost, a put after one loss.
CommandOk(c) ==
  /\ \A d \in Client \ {c} : cpc[d] \notin Waiting
  /\ cmd[c] = "delete" => DeleteOk(c)
  /\ cmd[c] = "get" => GetOk(c)
  /\ cmd[c] = "put" /\ lost[c] <= 1 => PutOk(c)
LossInv == \A c \in Client : Fair(c) => CommandOk(c)

\* The short sequences there are.
LEMMA SameShort ==
  ASSUME NEW T, NEW q \in Seq(T)
  PROVE  /\ Len(q) = 0 => q = <<>>
         /\ \A a \in T : Len(q) = 1 /\ q[1] = a => q = <<a>>
         /\ \A a, b \in T : Len(q) = 2 /\ q[1] = a /\ q[2] = b => q = <<a, b>>
         /\ \A a, b, d \in T : Len(q) = 3 /\ q[1] = a /\ q[2] = b /\ q[3] = d => q = <<a, b, d>>
<1>1. ASSUME NEW a \in T, Len(q) = 1, q[1] = a PROVE q = <<a>>
  <2>1. <<a>> \in Seq(T) /\ Len(<<a>>) = 1 /\ \A i \in 1..1 : q[i] = <<a>>[i]
    BY <1>1
  <2> QED BY <1>1, <2>1, SeqEqual
<1>2. ASSUME NEW a \in T, NEW b \in T, Len(q) = 2, q[1] = a, q[2] = b PROVE q = <<a, b>>
  <2>1. <<a, b>> \in Seq(T) /\ Len(<<a, b>>) = 2 /\ \A i \in 1..2 : q[i] = <<a, b>>[i]
    BY <1>2
  <2> QED BY <1>2, <2>1, SeqEqual
<1>3. ASSUME NEW a \in T, NEW b \in T, NEW d \in T, Len(q) = 3, q[1] = a, q[2] = b, q[3] = d
      PROVE  q = <<a, b, d>>
  <2>1. <<a, b, d>> \in Seq(T) /\ Len(<<a, b, d>>) = 3
        /\ \A i \in 1..3 : q[i] = <<a, b, d>>[i]
    BY <1>3
  <2> QED BY <1>3, <2>1, SeqEqual
<1>4. Len(q) = 0 => q = <<>>
  BY EmptySeq
<1> QED BY <1>1, <1>2, <1>3, <1>4

LEMMA ShortTails ==
  ASSUME NEW a, NEW b, NEW d
  PROVE  /\ Tail(<<a>>) = <<>> /\ Tail(<<a, b>>) = <<b>> /\ Tail(<<a, b, d>>) = <<b, d>>
         /\ Head(<<a>>) = a /\ Head(<<a, b>>) = a /\ Head(<<a, b, d>>) = a
<1> DEFINE T == {a, b, d}
<1>1. <<a>> \in Seq(T) /\ <<a, b>> \in Seq(T) /\ <<a, b, d>> \in Seq(T)
  OBVIOUS
<1>2. Tail(<<a>>) = <<>>
  OBVIOUS
<1>3. Tail(<<a, b>>) = <<b>>
  <2>1. Tail(<<a, b>>) \in Seq(T) /\ Len(Tail(<<a, b>>)) = 1 /\ Tail(<<a, b>>)[1] = b
    BY <1>1
  <2> HIDE DEF T
  <2>2. b \in T
    BY DEF T
  <2> QED BY <2>1, <2>2, SameShort
<1>4. Tail(<<a, b, d>>) = <<b, d>>
  <2>1. Tail(<<a, b, d>>) \in Seq(T) /\ Len(Tail(<<a, b, d>>)) = 2
        /\ Tail(<<a, b, d>>)[1] = b /\ Tail(<<a, b, d>>)[2] = d
    BY <1>1
  <2> HIDE DEF T
  <2>2. b \in T /\ d \in T
    BY DEF T
  <2> QED BY <2>1, <2>2, SameShort
<1>5. Head(<<a>>) = a /\ Head(<<a, b>>) = a /\ Head(<<a, b, d>>) = a
  OBVIOUS
<1> QED BY <1>2, <1>3, <1>4, <1>5

LEMMA ShortJoins ==
  ASSUME NEW a, NEW b, NEW d
  PROVE  /\ <<>> \o <<a>> = <<a>> /\ <<>> \o <<a, b>> = <<a, b>>
         /\ <<>> \o <<a, b, d>> = <<a, b, d>> /\ <<a>> \o <<b, d>> = <<a, b, d>>
<1> DEFINE T == {a, b, d}
<1>1. /\ <<a>> \in Seq(T) /\ <<a, b>> \in Seq(T) /\ <<a, b, d>> \in Seq(T)
      /\ <<b, d>> \in Seq(T)
  OBVIOUS
<1>2. <<a>> \o <<b, d>> \in Seq(T) /\ Len(<<a>> \o <<b, d>>) = 3
      /\ (<<a>> \o <<b, d>>)[1] = a /\ (<<a>> \o <<b, d>>)[2] = b /\ (<<a>> \o <<b, d>>)[3] = d
  BY <1>1
<1>3. a \in T /\ b \in T /\ d \in T
  OBVIOUS
<1> HIDE DEF T
<1>4. <<a>> \o <<b, d>> = <<a, b, d>>
  <2> DEFINE q == <<a>> \o <<b, d>>
  <2>1. q \in Seq(T) /\ Len(q) = 3 /\ q[1] = a /\ q[2] = b /\ q[3] = d
    BY <1>2
  <2> HIDE DEF q
  <2>2. q = <<a, b, d>>
    BY <1>3, <2>1, SameShort
  <2> QED BY <2>2 DEF q
<1> QED BY <1>1, <1>4, ConcatEmptySeq

\* What is left of a short queue when one of it is lost.
LEMMA DropIs ==
  ASSUME NEW T, NEW q \in Seq(T), NEW i \in DOMAIN q
  PROVE  /\ Drop(q, i) \in Seq(T) /\ Len(Drop(q, i)) = Len(q) - 1 /\ i \in 1..Len(q)
         /\ \A j \in 1..Len(q)-1 : Drop(q, i)[j] = IF j < i THEN q[j] ELSE q[j+1]
<1>1. i \in 1..Len(q) /\ Len(q) \in Nat
  OBVIOUS
<1>2. /\ SubSeq(q, 1, i - 1) \in Seq(T) /\ Len(SubSeq(q, 1, i - 1)) = i - 1
      /\ \A j \in 1..i-1 : SubSeq(q, 1, i - 1)[j] = q[j]
  BY <1>1
<1>3. /\ SubSeq(q, i + 1, Len(q)) \in Seq(T) /\ Len(SubSeq(q, i + 1, Len(q))) = Len(q) - i
      /\ \A j \in 1..Len(q)-i : SubSeq(q, i + 1, Len(q))[j] = q[i + j]
  BY <1>1
<1> DEFINE r == SubSeq(q, 1, i - 1)
           s == SubSeq(q, i + 1, Len(q))
<1>4. Drop(q, i) = r \o s
  BY DEF Drop
<1> HIDE DEF r, s
<1>5. r \in Seq(T) /\ s \in Seq(T) /\ Len(r) = i - 1 /\ Len(s) = Len(q) - i
  BY <1>2, <1>3 DEF r, s
<1>6. /\ r \o s \in Seq(T) /\ Len(r \o s) = Len(q) - 1
      /\ \A j \in 1..Len(q)-1 : (r \o s)[j] = IF j <= i - 1 THEN r[j] ELSE s[j - (i - 1)]
  BY <1>1, <1>5, ConcatProperties
<1>7. ASSUME NEW j \in 1..Len(q)-1 PROVE (r \o s)[j] = IF j < i THEN q[j] ELSE q[j+1]
  <2>1. j < i => r[j] = q[j]
    BY <1>1, <1>2 DEF r
  <2>2. ~(j < i) => s[j - (i - 1)] = q[i + (j - (i - 1))] /\ i + (j - (i - 1)) = j + 1
    BY <1>1, <1>3 DEF s
  <2> QED BY <1>1, <1>6, <2>1, <2>2
<1> QED BY <1>1, <1>4, <1>6, <1>7

LEMMA ShortDrops ==
  ASSUME NEW a, NEW b, NEW d
  PROVE  /\ \A i \in DOMAIN <<a>> : Drop(<<a>>, i) = <<>>
         /\ \A i \in DOMAIN <<a, b>> : Drop(<<a, b>>, i) \in {<<a>>, <<b>>}
         /\ \A i \in DOMAIN <<a, b, d>> :
              Drop(<<a, b, d>>, i) \in {<<b, d>>, <<a, d>>, <<a, b>>}
<1> DEFINE T == {a, b, d}
<1>0. a \in T /\ b \in T /\ d \in T
  OBVIOUS
<1>1. <<a>> \in Seq(T) /\ <<a, b>> \in Seq(T) /\ <<a, b, d>> \in Seq(T)
  OBVIOUS
<1> HIDE DEF T
<1>2. ASSUME NEW q \in Seq(T), NEW i \in DOMAIN q, Len(q) = 1
      PROVE  Drop(q, i) = <<>>
  <2>1. Drop(q, i) \in Seq(T) /\ Len(Drop(q, i)) = 0
    BY <1>2, DropIs
  <2> QED BY <2>1, SameShort
<1>3. ASSUME NEW q \in Seq(T), NEW i \in DOMAIN q, Len(q) = 2, q[1] = a, q[2] = b
      PROVE  Drop(q, i) \in {<<a>>, <<b>>}
  <2>1. /\ Drop(q, i) \in Seq(T) /\ Len(Drop(q, i)) = Len(q) - 1 /\ i \in 1..Len(q)
        /\ \A j \in 1..Len(q)-1 : Drop(q, i)[j] = IF j < i THEN q[j] ELSE q[j+1]
    BY DropIs
  <2>2. Drop(q, i)[1] = a \/ Drop(q, i)[1] = b
    BY <1>3, <2>1
  <2> QED BY <1>0, <1>3, <2>1, <2>2, SameShort
<1>4. ASSUME NEW q \in Seq(T), NEW i \in DOMAIN q, Len(q) = 3, q[1] = a, q[2] = b, q[3] = d
      PROVE  Drop(q, i) \in {<<b, d>>, <<a, d>>, <<a, b>>}
  <2>1. /\ Drop(q, i) \in Seq(T) /\ Len(Drop(q, i)) = Len(q) - 1 /\ i \in 1..Len(q)
        /\ \A j \in 1..Len(q)-1 : Drop(q, i)[j] = IF j < i THEN q[j] ELSE q[j+1]
    BY DropIs
  <2>2. Drop(q, i)[1] = (IF 1 < i THEN a ELSE b)
    BY <1>4, <2>1
  <2>3. Drop(q, i)[2] = (IF 2 < i THEN b ELSE d)
    BY <1>4, <2>1
  <2>4. \/ Drop(q, i)[1] = b /\ Drop(q, i)[2] = d
        \/ Drop(q, i)[1] = a /\ Drop(q, i)[2] = d
        \/ Drop(q, i)[1] = a /\ Drop(q, i)[2] = b
    BY <1>4, <2>1, <2>2, <2>3
  <2> QED BY <1>0, <1>4, <2>1, <2>4, SameShort
<1>5. Len(<<a>>) = 1 /\ Len(<<a, b>>) = 2 /\ <<a, b>>[1] = a /\ <<a, b>>[2] = b
      /\ Len(<<a, b, d>>) = 3 /\ <<a, b, d>>[1] = a /\ <<a, b, d>>[2] = b /\ <<a, b, d>>[3] = d
  OBVIOUS
<1>6. \A i \in DOMAIN <<a>> : Drop(<<a>>, i) = <<>>
  BY <1>1, <1>2, <1>5
<1>7. \A i \in DOMAIN <<a, b>> : Drop(<<a, b>>, i) \in {<<a>>, <<b>>}
  BY <1>1, <1>3, <1>5
<1>8. \A i \in DOMAIN <<a, b, d>> : Drop(<<a, b, d>>, i) \in {<<b, d>>, <<a, d>>, <<a, b>>}
  BY <1>1, <1>4, <1>5
<1> QED BY <1>6, <1>7, <1>8

LEMMA Drops ==
  ASSUME NEW q, NEW i \in DOMAIN q
  PROVE  /\ \A a : q = <<a>> => Drop(q, i) = <<>>
         /\ \A a, b : q = <<a, b>> => Drop(q, i) = <<a>> \/ Drop(q, i) = <<b>>
         /\ \A a, b, d : q = <<a, b, d>> =>
              Drop(q, i) = <<b, d>> \/ Drop(q, i) = <<a, d>> \/ Drop(q, i) = <<a, b>>
<1>1. ASSUME NEW a, q = <<a>> PROVE Drop(q, i) = <<>>
  <2>1. i \in DOMAIN <<a>>
    BY <1>1
  <2>2. Drop(<<a>>, i) = <<>>
    BY <2>1, ShortDrops
  <2> QED BY <1>1, <2>2
<1>2. ASSUME NEW a, NEW b, q = <<a, b>> PROVE Drop(q, i) = <<a>> \/ Drop(q, i) = <<b>>
  <2>1. i \in DOMAIN <<a, b>>
    BY <1>2
  <2>2. Drop(<<a, b>>, i) \in {<<a>>, <<b>>}
    BY <2>1, ShortDrops
  <2> QED BY <1>2, <2>2
<1>3. ASSUME NEW a, NEW b, NEW d, q = <<a, b, d>>
      PROVE  Drop(q, i) = <<b, d>> \/ Drop(q, i) = <<a, d>> \/ Drop(q, i) = <<a, b>>
  <2>1. i \in DOMAIN <<a, b, d>>
    BY <1>3
  <2>2. Drop(<<a, b, d>>, i) \in {<<b, d>>, <<a, d>>, <<a, b>>}
    BY <2>1, ShortDrops
  <2> QED BY <1>3, <2>2
<1> QED BY <1>1, <1>2, <1>3

\* A queue of one.
LEMMA OfOne ==
  ASSUME NEW T, NEW q \in Seq(T), Len(q) = 1
  PROVE  q = <<q[1]>> /\ q # <<>> /\ Head(q) = q[1] /\ Tail(q) = <<>> /\ q[1] \in T
<1>1. q # <<>> /\ Head(q) = q[1] /\ q[1] \in T
  OBVIOUS
<1>2. q = <<q[1]>>
  BY <1>1, SameShort
<1>3. Tail(q) \in Seq(T) /\ Len(Tail(q)) = 0
  BY <1>1
<1> QED BY <1>1, <1>2, <1>3, SameShort

\* What is sent when nothing else is under way.
LEMMA FirstSent ==
  ASSUME NEW c \in Client, sq = <<>>, spc # "dead"
  PROVE  /\ \A a : ToServer(c, <<a>>) => sq' = <<Of(c, a)>>
         /\ \A a, b, d : ToServer(c, <<a, b, d>>) => sq' = <<Of(c, a), Of(c, b), Of(c, d)>>
<1>1. ASSUME NEW a, ToServer(c, <<a>>) PROVE sq' = <<Of(c, a)>>
  <2>1. sq' = <<>> \o [i \in DOMAIN <<a>> |-> [from |-> c, d |-> <<a>>[i]]]
    BY <1>1 DEF ToServer
  <2>2. [i \in DOMAIN <<a>> |-> [from |-> c, d |-> <<a>>[i]]] = <<Of(c, a)>>
    BY DEF Of
  <2> QED BY <2>1, <2>2, ShortJoins
<1>2. ASSUME NEW a, NEW b, NEW d, ToServer(c, <<a, b, d>>)
      PROVE  sq' = <<Of(c, a), Of(c, b), Of(c, d)>>
  <2>1. sq' = <<>> \o [i \in DOMAIN <<a, b, d>> |-> [from |-> c, d |-> <<a, b, d>>[i]]]
    BY <1>2 DEF ToServer
  <2>2. [i \in DOMAIN <<a, b, d>> |-> [from |-> c, d |-> <<a, b, d>>[i]]]
          = <<Of(c, a), Of(c, b), Of(c, d)>>
    BY DEF Of
  <2> QED BY <2>1, <2>2, ShortJoins
<1> QED BY <1>1, <1>2

LEMMA FirstAnswer ==
  ASSUME TypeInv, NEW c \in Client, cq[c] = <<>>, cpc[c] \in Waiting
  PROVE  /\ \A a : ToClient(c, <<a>>) => cq'[c] = <<a>>
         /\ \A a, b : ToClient(c, <<a, b>>) => cq'[c] = <<a, b>>
<1>1. cq \in [Client -> Seq(ToClients)] /\ c # NoOne /\ cpc[c] \notin {"gone", "dead"}
  BY TypeParts, UftpAssumption DEF QueuesOk, Waiting
<1>2. \A ds : ToClient(c, ds) => cq'[c] = <<>> \o ds
  BY <1>1 DEF ToClient
<1> QED BY <1>2, ShortJoins

\* Which steps there are, by where the server or the client is.
LEMMA WhatServer ==
  ASSUME ServerStep
  PROVE  /\ spc = "top" => \/ ServeGet \/ ServeGetNoFile \/ ServePut \/ ServeDelete
                           \/ ServeListOrExit \/ ServeOther \/ ServeEmpty
         /\ spc = "get_ack" => ServeAck
         /\ spc = "put_size" => ServePutSize \/ ServePutNoFile \/ PutSizeTimesOut
         /\ spc = "put_small" => ServePutSmall \/ PutSmallTimesOut
         /\ spc = "put_large" => ServePutLarge \/ PutLargeTimesOut
         /\ spc # "dead"
         /\ spc \in {"top", "get_ack"} => sq # <<>>
<1>1. /\ ServeGet \/ ServeGetNoFile \/ ServePut \/ ServeDelete \/ ServeListOrExit \/ ServeOther
           => spc = "top" /\ sq # <<>>
      /\ ServeEmpty => spc = "top" /\ sq # <<>>
  BY DEF ServeGet, ServeGetNoFile, ServePut, ServeDelete, ServeListOrExit, ServeOther, ServeEmpty,
         Takes
<1>2. /\ ServeAck => spc = "get_ack" /\ sq # <<>>
      /\ ServePutSize \/ ServePutNoFile \/ PutSizeTimesOut => spc = "put_size"
      /\ ServePutSmall \/ PutSmallTimesOut => spc = "put_small"
      /\ ServePutLarge \/ PutLargeTimesOut => spc = "put_large"
  BY DEF ServeAck, ServePutSize, ServePutNoFile, PutSizeTimesOut, ServePutSmall, PutSmallTimesOut,
         ServePutLarge, PutLargeTimesOut, Takes, ServerTimesOut
<1> QED BY <1>1, <1>2 DEF ServerStep

LEMMA WhatClient ==
  ASSUME NEW c \in Client, ClientStep(c)
  PROVE  /\ cpc[c] \in Waiting
         /\ cpc[c] = "get_size" => GetNoFile(c) \/ GetSize(c) \/ GetTimesOut(c)
         /\ cpc[c] = "get_small" => GetSmall(c) \/ GetSmallTimesOut(c)
         /\ cpc[c] = "get_large" => GetLarge(c) \/ GetLargeTimesOut(c)
         /\ cpc[c] = "put_ack" => PutAck(c) \/ PutAckTimesOut(c)
         /\ cpc[c] = "put_final" => Replied(c) \/ ReplyTimesOut(c)
         /\ cpc[c] = "reply" => Replied(c) \/ Exited(c) \/ ReplyTimesOut(c)
<1>1. /\ GetNoFile(c) \/ GetSize(c) \/ GetTimesOut(c) => cpc[c] = "get_size"
      /\ GetSmall(c) \/ GetSmallTimesOut(c) => cpc[c] = "get_small"
      /\ GetLarge(c) \/ GetLargeTimesOut(c) => cpc[c] = "get_large"
      /\ PutAck(c) \/ PutAckTimesOut(c) => cpc[c] = "put_ack"
  BY DEF GetNoFile, GetSize, GetTimesOut, GetSmall, GetSmallTimesOut, GetLarge, GetLargeTimesOut,
         PutAck, PutAckTimesOut, Receives, TimesOut
<1>2. /\ Replied(c) \/ ReplyTimesOut(c) => cpc[c] \in {"put_final", "reply"}
      /\ Exited(c) => cpc[c] = "reply"
  BY DEF Replied, ReplyTimesOut, Exited, Receives, TimesOut
<1> QED BY <1>1, <1>2 DEF ClientStep, Waiting

\* A step of the server is none of a client's.
LEMMA ServersFrame ==
  ASSUME TypeInv, ServerStep, NEW c \in Client, ~odd'[c]
  PROVE  /\ UNCHANGED <<client, clean, lost>>
         /\ ~odd[c]
         /\ \A state : ServerTimesOut(state) => sq = <<>> /\ stimer = 0
<1>1. odd \in [Client -> BOOLEAN]
  BY TypeParts DEF HistTypes
<1>2. \A state : Takes(state) => UNCHANGED <<client, hist>>
  BY DEF Takes
<1>3. \A state : ServerTimesOut(state) =>
        UNCHANGED <<client, clean, lost>> /\ odd' = odd /\ sq = <<>> /\ stimer = 0
  BY DEF ServerTimesOut
<1>4. UNCHANGED <<client, hist>> \/ \E state : ServerTimesOut(state)
  BY <1>2 DEF ServerStep, ServeGet, ServeGetNoFile, ServeAck, ServePut, ServePutSize,
     ServePutNoFile, ServePutSmall, ServePutLarge, ServeDelete, ServeListOrExit, ServeOther,
     ServeEmpty, PutSizeTimesOut, PutSmallTimesOut, PutLargeTimesOut
<1> QED BY <1>1, <1>3, <1>4 DEF hist

\* A step of a client is none of the server's, nor of another client's command.
LEMMA ClientsFrame ==
  ASSUME TypeInv, NEW c \in Client, ClientStep(c), ~odd'[c]
  PROVE  /\ UNCHANGED <<server, clean, lost, cmd, cfile>>
         /\ ~odd[c]
         /\ \A d \in Client \ {c} : cpc'[d] = cpc[d]
         /\ \A state : TimesOut(c, state) => cq[c] = <<>> /\ ctimer[c] = 0
<1>1. odd \in [Client -> BOOLEAN] /\ cpc \in [Client -> Waiting \cup {"prompt", "gone", "dead"}]
  BY TypeParts DEF HistTypes, ClientTypes
<1>2. Keeps => UNCHANGED <<server, hist, cmd, cfile>>
  BY DEF Keeps
<1>3. \A state : TimesOut(c, state) =>
        /\ UNCHANGED <<server, clean, lost, cmd, cfile>> /\ odd' = odd
        /\ cq[c] = <<>> /\ ctimer[c] = 0
  BY DEF TimesOut
<1>4. Keeps \/ \E state : TimesOut(c, state)
  BY DEF ClientStep, GetNoFile, GetSize, GetSmall, GetLarge, PutAck, Replied, Exited,
     GetTimesOut, GetSmallTimesOut, GetLargeTimesOut, PutAckTimesOut, ReplyTimesOut
<1>5. \E state : cpc' = [cpc EXCEPT ![c] = state]
  BY DEF ClientStep, GetNoFile, GetSize, GetSmall, GetLarge, PutAck, Replied, Exited,
     GetTimesOut, GetSmallTimesOut, GetLargeTimesOut, PutAckTimesOut, ReplyTimesOut,
     Tells, WaitIn, NextBlock
<1> QED BY <1>1, <1>2, <1>3, <1>4, <1>5 DEF hist

\* A loss takes one datagram of one queue.
LEMMA LossIs ==
  ASSUME TypeInv, Lose, NEW c \in Client
  PROVE  /\ UNCHANGED <<client, server, clean, odd>>
         /\ lost[c] \in Nat /\ lost'[c] = lost[c] + 1 /\ lost'[c] > 0
         /\ \/ cq'[c] = cq[c] /\ \E i \in DOMAIN sq : sq' = Drop(sq, i)
            \/ sq' = sq /\ \E i \in DOMAIN cq[c] : cq'[c] = Drop(cq[c], i)
            \/ sq' = sq /\ cq'[c] = cq[c]
<1>1. lost \in [Client -> Nat] /\ cq \in [Client -> Seq(ToClients)]
  BY TypeParts DEF HistTypes, QueuesOk
<1>2. lost' = [d \in Client |-> lost[d] + 1] /\ UNCHANGED <<client, server, clean, odd>>
  BY DEF Lose, Fault
<1>3. \/ cq' = cq /\ \E i \in DOMAIN sq : sq' = Drop(sq, i)
      \/ sq' = sq /\ \E d \in Client : \E i \in DOMAIN cq[d] : cq' = [cq EXCEPT ![d] = Drop(@, i)]
  BY DEF Lose, OnAQueue
<1> QED BY <1>1, <1>2, <1>3

\* When time passes in c's command, nothing is under way.
LEMMA TickIs ==
  ASSUME TypeInv, Tick, NEW c \in Client, ~odd'[c]
  PROVE  /\ UNCHANGED <<cpc, transfer, dir, told, spc, sfile, sneed, sdone, srest, disk, sq, cq,
                        clean, lost, odd>>
         /\ sq = <<>> /\ (cpc[c] \in Waiting => cq[c] = <<>>)
         /\ cpc[c] \in Waiting => ctimer[c] > 0 /\ ctimer'[c] = ctimer[c] - 1
         /\ spc \in InPut => stimer > 0 /\ stimer' = stimer - 1
BY DEF Tick

(* --------------------- losses: a command is entered -------------------- *)

LEMMA EntersIs ==
  ASSUME TypeInv, NEW c \in Client, NEW command, NEW f \in File \cup {NoOne},
         Enters(c, command, f), clean'[c]
  PROVE  /\ Quiet /\ cmd'[c] = command /\ cfile'[c] = f /\ lost'[c] = 0
         /\ UNCHANGED <<server, cq, dir>> /\ spc = "top" /\ sq = <<>> /\ cq[c] = <<>>
         /\ \A d \in Client : cpc[d] \notin Waiting
<1>1. /\ cmd \in [Client -> Commands \cup {"none"}] /\ cfile \in [Client -> File \cup {NoOne}]
      /\ clean \in [Client -> BOOLEAN] /\ lost \in [Client -> Nat]
  BY TypeParts DEF ClientTypes, HistTypes
<1>2. Quiet
  BY <1>1 DEF Enters
<1> QED BY <1>1, <1>2 DEF Enters, Quiet

LEMMA DeleteStarts ==
  ASSUME TypeInv, NEW c \in Client, NEW f \in File, Delete(c, f), clean'[c]
  PROVE  DeleteOk(c)' /\ cmd'[c] = "delete"
<1>1. Enters(c, "delete", f) /\ ToServer(c, <<Request("delete", f)>>) /\ WaitIn(c, "reply")
  BY DEF Delete
<1>2. /\ cmd'[c] = "delete" /\ cfile'[c] = f /\ UNCHANGED server /\ cq' = cq
      /\ spc = "top" /\ sq = <<>> /\ cq[c] = <<>>
  BY <1>1, EntersIs
<1>3. sq' = <<Of(c, Request("delete", f))>>
  BY <1>1, <1>2, FirstSent
<1>4. cpc'[c] = "reply"
  BY <1>1, TypeParts DEF WaitIn, ClientTypes
<1> QED BY <1>2, <1>3, <1>4 DEF DeleteOk, server

LEMMA GetStarts ==
  ASSUME TypeInv, NEW c \in Client, NEW f \in File, Get(c, f), clean'[c]
  PROVE  GetOk(c)' /\ cmd'[c] = "get"
<1>1. Enters(c, "get", f) /\ ToServer(c, <<Request("get", f)>>) /\ WaitIn(c, "get_size")
  BY DEF Get
<1>2. /\ cmd'[c] = "get" /\ cfile'[c] = f /\ UNCHANGED server /\ cq' = cq /\ lost'[c] = 0
      /\ spc = "top" /\ sq = <<>> /\ cq[c] = <<>>
  BY <1>1, EntersIs
<1>3. sq' = <<Of(c, Request("get", f))>>
  BY <1>1, <1>2, FirstSent
<1>4. cpc'[c] = "get_size" /\ ctimer'[c] = CTimeout
  BY <1>1, TypeParts DEF WaitIn, ClientTypes
<1>5. AskedOk(c)'
  BY <1>2, <1>3, <1>4 DEF AskedOk, Asking, Fresh, server
<1> QED BY <1>2, <1>4, <1>5 DEF GetOk, server

LEMMA PutStarts ==
  ASSUME TypeInv, NEW c \in Client, NEW f \in File, Put(c, f) \/ PutNoFile(c, f), clean'[c]
  PROVE  PutOk(c)' /\ cmd'[c] = "put"
<1>0. /\ cpc \in [Client -> Waiting \cup {"prompt", "gone", "dead"}]
      /\ ctimer \in [Client -> 0..CTimeout] /\ told \in [Client -> Told]
      /\ rest \in [Client -> Data]
  BY TypeParts DEF ClientTypes
<1>1. CASE PutNoFile(c, f)
  <2>1. Enters(c, "put", f) /\ Tells(c, "enter_an_existing_file")
    BY <1>1 DEF PutNoFile
  <2>2. cmd'[c] = "put" /\ cpc'[c] = "prompt" /\ told'[c] = "enter_an_existing_file"
    BY <1>0, <2>1, EntersIs DEF Tells
  <2> QED BY <2>2 DEF PutOk
<1>2. CASE Put(c, f)
  <2> DEFINE data == dir[c][f]
             first == <<Request("put", f), SizeMsg(Len(data)), Block(FirstBlock(data))>>
  <2>1. /\ Enters(c, "put", f) /\ data # Absent
        /\ ToServer(c, <<Request("put", f)>> \o Opening(data))
        /\ rest' = [rest EXCEPT ![c] = AfterBlock(data)]
        /\ WaitIn(c, IF IsShort(Len(data)) THEN "put_final" ELSE "put_ack")
    BY <1>2 DEF Put
  <2>2. /\ cmd'[c] = "put" /\ cfile'[c] = f /\ UNCHANGED <<server, dir>> /\ cq' = cq
        /\ lost'[c] = 0 /\ spc = "top" /\ sq = <<>> /\ cq[c] = <<>>
    BY <2>1, EntersIs
  <2>3. Local(c)' = data
    BY <2>2 DEF Local
  <2> HIDE DEF data
  <2>4. <<Request("put", f)>> \o Opening(data) = first
    BY ShortJoins DEF Opening
  <2>5. sq' = <<Of(c, Request("put", f)), Of(c, SizeMsg(Len(data))), Of(c, Block(FirstBlock(data)))>>
    BY <2>1, <2>2, <2>4, FirstSent
  <2>6. sq' = <<PutMsg(c)', SizeOf(c)', FirstOf(c)'>>
    BY <2>2, <2>3, <2>5 DEF PutMsg, SizeOf, FirstOf
  <2>7. /\ cpc'[c] = IF IsShort(Len(data)) THEN "put_final" ELSE "put_ack"
        /\ ctimer'[c] = CTimeout /\ rest'[c] = AfterBlock(data)
    BY <1>0, <2>1 DEF WaitIn
  <2>8. OpensOk(c)'
    BY <2>2, <2>3, <2>6, <2>7 DEF OpensOk, Fresh, server
  <2>9. cpc'[c] \in {"put_ack", "put_final"}
    BY <2>7
  <2>10. Putting(c)'
    BY <2>8 DEF Putting
  <2> QED BY <2>1, <2>2, <2>3, <2>9, <2>10 DEF PutOk
<1> QED BY <1>1, <1>2

\* The one who enters a command disturbs all others.
LEMMA EnterLoss ==
  ASSUME TypeInv, NEW e \in Client, Enter(e), NEW c \in Client, Fair(c)'
  PROVE  CommandOk(c)'
<1>0. odd \in [Client -> BOOLEAN] /\ cpc \in [Client -> Waiting \cup {"prompt", "gone", "dead"}]
  BY TypeParts DEF HistTypes, ClientTypes
<1>1. PICK command : \E f \in File \cup {NoOne} : Enters(e, command, f)
  <2>1. ASSUME NEW g \in File, Get(e, g) \/ PutNoFile(e, g) \/ Put(e, g) \/ Delete(e, g)
        PROVE  \E command : \E f \in File \cup {NoOne} : Enters(e, command, f)
    BY <2>1 DEF Get, Put, PutNoFile, Delete
  <2>2. CASE ListOrExit(e)
    <3>1. \E command : Enters(e, command, NoOne)
      BY <2>2 DEF ListOrExit
    <3> QED BY <3>1
  <2> QED BY <2>1, <2>2 DEF Enter
<1>2. e = c
  BY <1>0, <1>1 DEF Enters, Fair
<1>3. clean'[c]
  BY DEF Fair
<1>4. \A d \in Client \ {c} : cpc'[d] \notin Waiting
  <2>1. \A d \in Client : cpc[d] \notin Waiting
    BY <1>1, <1>2, <1>3, EntersIs
  <2>2. \E state : cpc' = [cpc EXCEPT ![c] = state]
    BY <1>2 DEF Enter, Get, Put, PutNoFile, Delete, ListOrExit, WaitIn, Tells
  <2> QED BY <1>0, <2>1, <2>2
<1>5. ASSUME NEW g \in File, Get(c, g) \/ Put(c, g) \/ PutNoFile(c, g) \/ Delete(c, g)
      PROVE  CommandOk(c)'
  BY <1>3, <1>4, <1>5, GetStarts, PutStarts, DeleteStarts DEF CommandOk
<1>6. CASE ListOrExit(c)
  <2>1. PICK what \in {"ls", "exit"} : Enters(c, what, NoOne)
    BY <1>6 DEF ListOrExit
  <2>2. cmd'[c] \in {"ls", "exit"}
    BY <1>3, <2>1, EntersIs
  <2> QED BY <1>4, <2>2 DEF CommandOk
<1> QED BY <1>2, <1>5, <1>6 DEF Enter

(* ---------------------------- losses: delete --------------------------- *)

LEMMA DeleteServed ==
  ASSUME TypeInv, NEW c \in Client, DeleteOk(c), Fair(c)', ServerStep
  PROVE  DeleteOk(c)'
<1>1. UNCHANGED client
  BY ServersFrame DEF Fair
<1>2. CASE cpc[c] = "prompt" /\ told[c] # "delete_successful"
  BY <1>1, <1>2 DEF DeleteOk, client
<1>3. CASE spc = "top" /\ sq = <<>>
  BY <1>3, WhatServer
<1>4. CASE /\ cpc[c] = "reply" /\ spc = "top" /\ sq = <<Of(c, Request("delete", cfile[c]))>>
           /\ cq[c] = <<>>
  <2>1. Here = Request("delete", cfile[c]) /\ From = c /\ Tail(sq) = <<>>
    BY <1>4, ShortTails DEF Here, From, Of
  <2>2. Here.t = "delete" /\ Here.file = cfile[c] /\ Here.bytes # <<>>
    BY <2>1 DEF Request
  <2>3. ServeDelete
    BY <1>4, <2>2, WhatServer DEF ServeGet, ServeGetNoFile, ServePut, ServeListOrExit, ServeOther,
       ServeEmpty, Commands
  <2>4. /\ sq' = <<>> /\ spc' = "top" /\ cfile[c] \in DOMAIN disk
        /\ disk' = [disk EXCEPT ![cfile[c]] = Absent]
        /\ \E a : ToClient(c, <<a>>)
    <3>1. cfile[c] \in File
      <4>1. Here \in ToServers
        BY <1>4, TypeParts, EmptyOrNot DEF QueuesOk, Sent, Here
      <4> QED BY <2>2, <4>1 DEF ToServers
    <3>2. disk \in [File -> Data \cup {Absent}]
      BY TypeParts DEF ServerTypes
    <3> QED BY <1>4, <2>1, <2>2, <2>3, <3>1, <3>2 DEF ServeDelete, Takes
  <2>5. Len(cq'[c]) = 1
    BY <1>4, <2>4, FirstAnswer DEF Waiting
  <2>6. Remote(c)' = Absent
    BY <1>1, <2>4 DEF Remote, client, transfer
  <2> QED BY <1>1, <1>4, <2>4, <2>5, <2>6 DEF DeleteOk, client
<1> QED BY <1>2, <1>3, <1>4 DEF DeleteOk, Empty

LEMMA DeleteAnswered ==
  ASSUME TypeInv, NEW c \in Client, DeleteOk(c), cmd[c] = "delete", Fair(c)', ClientStep(c)
  PROVE  DeleteOk(c)'
<1>0. /\ cpc \in [Client -> Waiting \cup {"prompt", "gone", "dead"}] /\ told \in [Client -> Told]
      /\ cq \in [Client -> Seq(ToClients)]
  BY TypeParts DEF ClientTypes, QueuesOk
<1>1. UNCHANGED <<server, cmd, cfile>>
  BY ClientsFrame DEF Fair
<1>2. cpc[c] = "reply"
  BY WhatClient DEF DeleteOk, Waiting
<1>3. (Replied(c) /\ cq[c] # <<>>) \/ ReplyTimesOut(c)
  BY <1>2, WhatClient DEF Exited, Replied, Receives
<1>4. CASE ReplyTimesOut(c)
  <2>1. cpc'[c] = "prompt" /\ told'[c] = "timeout"
    BY <1>0, <1>4 DEF ReplyTimesOut, Tells
  <2> QED BY <2>1 DEF DeleteOk
<1>5. CASE Replied(c) /\ cq[c] # <<>>
  <2>1. spc = "top" /\ sq = <<>> /\ Remote(c) = Absent
    BY <1>2, <1>5 DEF DeleteOk, Empty
  <2>2. cpc'[c] = "prompt" /\ sq' = sq
    BY <1>0, <1>5 DEF Replied, Tells
  <2> QED BY <1>1, <2>1, <2>2 DEF DeleteOk, Remote, server
<1> QED BY <1>3, <1>4, <1>5

LEMMA DeleteLoses ==
  ASSUME TypeInv, NEW c \in Client, DeleteOk(c), Fair(c)', Lose
  PROVE  DeleteOk(c)'
<1>1. /\ UNCHANGED <<client, server>>
      /\ \/ cq'[c] = cq[c] /\ \E i \in DOMAIN sq : sq' = Drop(sq, i)
         \/ sq' = sq /\ \E i \in DOMAIN cq[c] : cq'[c] = Drop(cq[c], i)
         \/ sq' = sq /\ cq'[c] = cq[c]
  BY LossIs DEF Fair
<1>2. Remote(c)' = Remote(c) /\ cpc' = cpc /\ told' = told /\ spc' = spc /\ cfile' = cfile
  BY <1>1 DEF Remote, client, transfer, server
<1>3. CASE cpc[c] = "reply" /\ spc = "top" /\ sq = <<Of(c, Request("delete", cfile[c]))>>
           /\ cq[c] = <<>>
  <2>1. (sq' = sq \/ sq' = <<>>) /\ cq'[c] = <<>>
    BY <1>1, <1>3, Drops
  <2> QED BY <1>2, <1>3, <2>1 DEF DeleteOk, Empty
<1>4. CASE cpc[c] = "reply" /\ spc = "top" /\ Empty(c)
  <2>1. sq' = <<>> /\ cq'[c] = <<>>
    BY <1>1, <1>4 DEF Empty
  <2> QED BY <1>2, <1>4, <2>1 DEF DeleteOk, Empty
<1>5. CASE cpc[c] = "reply" /\ spc = "top" /\ sq = <<>> /\ Len(cq[c]) = 1 /\ Remote(c) = Absent
  <2>1. sq' = <<>>
    BY <1>1, <1>5
  <2>2. cq'[c] = cq[c] \/ cq'[c] = <<>>
    <3>1. cq[c] \in Seq(ToClients)
      BY TypeParts DEF QueuesOk
    <3>2. cq[c] = <<cq[c][1]>>
      BY <1>5, <3>1, OfOne
    <3>3. \A i \in DOMAIN cq[c] : Drop(cq[c], i) = <<>>
      BY <3>2, Drops
    <3> QED BY <1>1, <3>3
  <2> QED BY <1>2, <1>5, <2>1, <2>2 DEF DeleteOk, Empty
<1>6. CASE cpc[c] = "prompt" /\ told[c] # "delete_successful"
  BY <1>2, <1>6 DEF DeleteOk
<1>7. CASE cpc[c] = "prompt" /\ spc = "top" /\ sq = <<>> /\ Remote(c) = Absent
  <2>1. sq' = <<>>
    BY <1>1, <1>7
  <2> QED BY <1>2, <1>7, <2>1 DEF DeleteOk
<1> QED BY <1>3, <1>4, <1>5, <1>6, <1>7 DEF DeleteOk

(* ----------------------------- losses: get ----------------------------- *)

\* What c and the server have of the file.
LEMMA FilesAre ==
  ASSUME TypeInv, NEW c \in Client
  PROVE  /\ cpc[c] \in Transfers =>
              /\ cfile[c] \in File
              /\ Local(c) \in Data \cup {Absent} /\ Remote(c) \in Data \cup {Absent}
         /\ cpc[c] \in {"get_small", "get_large"} => Local(c) \in Data
         /\ rest[c] \in Data /\ srest \in Data /\ sq \in Seq(Sent) /\ cq[c] \in Seq(ToClients)
<1>1. /\ ClientOk(c) /\ cfile \in [Client -> File \cup {NoOne}]
      /\ dir \in [Client -> [File -> Data \cup {Absent}]] /\ disk \in [File -> Data \cup {Absent}]
      /\ rest \in [Client -> Data] /\ srest \in Data /\ QueuesOk
  BY TypeParts DEF ClientTypes, ServerTypes, ClientsOk
<1>2. cpc[c] \in Transfers => cfile[c] \in File
  BY <1>1 DEF ClientOk
<1>3. cpc[c] \in {"get_small", "get_large"} => cpc[c] \in Transfers
  BY DEF Transfers, Waiting
<1>4. cpc[c] \in {"get_small", "get_large"} => Local(c) # Absent
  BY <1>1 DEF ClientOk, Local
<1> QED BY <1>1, <1>2, <1>3, <1>4 DEF QueuesOk, Local, Remote

\* Blocks put together.
LEMMA JoinsJoin ==
  ASSUME NEW a \in Data, NEW b \in Data, NEW d \in Data
  PROVE  (a \o b) \o d = a \o (b \o d)
BY ConcatAssociative DEF Data

LEMMA JoinIs ==
  ASSUME NEW a \in Data
  PROVE  /\ <<>> \o a = a /\ a \o <<>> = a
         /\ Len(a) \in Nat /\ (Len(a) = 0 <=> a = <<>>)
<1>1. <<>> \o a = a /\ a \o <<>> = a
  BY ConcatEmptySeq DEF Data
<1>2. Len(a) \in Nat /\ (Len(a) = 0 <=> a = <<>>)
  BY EmptySeq DEF Data
<1> QED BY <1>1, <1>2

\* A file that is not whole yet begins as the whole one does.
LEMMA BeginsIs ==
  ASSUME NEW a \in Data, NEW b \in Data, b # <<>>
  PROVE  Begins(a, a \o b)
<1>1. a \in Seq(Unit \cup {Text, Junk}) /\ b \in Seq(Unit \cup {Text, Junk})
  BY DEF Data
<1>2. Len(a \o b) = Len(a) + Len(b) /\ Len(b) > 0 /\ Len(a) \in Nat /\ Len(b) \in Nat
  BY JoinIs
<1>3. SubSeq(a \o b, 1, Len(a)) = a
  <2> DEFINE w == a \o b
  <2>1. /\ w \in Seq(Unit \cup {Text, Junk}) /\ Len(w) = Len(a) + Len(b)
        /\ \A i \in 1..Len(a) : w[i] = a[i]
    BY <1>1
  <2> HIDE DEF w
  <2>2. \A i \in 1..Len(a) : w[i] \in Unit \cup {Text, Junk}
    BY <1>2, <2>1
  <2>3. /\ SubSeq(w, 1, Len(a)) \in Seq(Unit \cup {Text, Junk})
        /\ Len(SubSeq(w, 1, Len(a))) = Len(a)
        /\ \A i \in 1..Len(a) : SubSeq(w, 1, Len(a))[i] = w[i]
    BY <1>2, <2>2, SubSeqProperties
  <2>4. SubSeq(w, 1, Len(a)) = a
    BY <1>1, <2>1, <2>3, SeqEqual
  <2> QED BY <2>4 DEF w
<1> QED BY <1>2, <1>3 DEF Begins

LEMMA AskedServed ==
  ASSUME TypeInv, NEW c \in Client, Asking(c), cpc[c] = "get_size", Fair(c)', ServerStep
  PROVE  AskedOk(c)' /\ spc' \in {"top", "get_ack"}
<1>1. UNCHANGED client
  BY ServersFrame DEF Fair
<1>2. cfile[c] \in File /\ cfile' = cfile /\ cpc[c] \in Waiting
  BY <1>1, FilesAre DEF Transfers, Waiting, client, transfer
<1>3. Here = Request("get", cfile[c]) /\ From = c /\ Tail(sq) = <<>>
  BY ShortTails DEF Here, From, Of, Asking
<1>4. Here.t = "get" /\ Here.file = cfile[c] /\ Here.bytes # <<>>
  BY <1>3 DEF Request
<1>5. ServeGet \/ ServeGetNoFile
  BY <1>4, WhatServer DEF ServePut, ServeDelete, ServeListOrExit, ServeOther,
     ServeEmpty, Commands, Asking
<1>6. CASE ServeGetNoFile
  <2>1. /\ ToClient(c, <<Msg("no_file")>>) /\ disk[cfile[c]] = Absent
        /\ sq' = <<>> /\ disk' = disk /\ spc' = spc
    BY <1>3, <1>4, <1>6 DEF ServeGetNoFile, Takes
  <2>2. cq'[c] = <<Msg("no_file")>>
    BY <1>2, <2>1, FirstAnswer DEF Asking
  <2> QED BY <1>2, <2>1, <2>2 DEF AskedOk, Refused, Remote, Asking
<1>7. CASE ServeGet
  <2> DEFINE data == disk[cfile[c]]
  <2>1. /\ ToClient(c, Opening(data)) /\ data # Absent
        /\ sq' = <<>> /\ disk' = disk /\ srest' = AfterBlock(data)
        /\ spc' = IF IsShort(Len(data)) THEN "top" ELSE "get_ack"
    BY <1>3, <1>4, <1>7 DEF ServeGet, Takes, Goto
  <2>2. cq'[c] = Opening(data)
    BY <1>2, <2>1, FirstAnswer DEF Asking, Opening
  <2>3. Remote(c)' = data
    BY <1>2, <2>1 DEF Remote
  <2> HIDE DEF data
  <2> QED BY <2>1, <2>2, <2>3 DEF AskedOk, Opened
<1> QED BY <1>5, <1>6, <1>7

LEMMA AckServed ==
  ASSUME TypeInv, NEW c \in Client, AckComes(c), cpc[c] = "get_large", Fair(c)', ServerStep,
         Remote(c) # Absent
  PROVE  LargeOk(c)' /\ spc' = "get_ack"
<1>1. UNCHANGED client
  BY ServersFrame DEF Fair
<1>2. /\ cfile' = cfile /\ cpc[c] \in Waiting /\ Local(c) \in Data /\ srest \in Data
      /\ done' = done /\ need' = need /\ Local(c)' = Local(c)
  BY <1>1, FilesAre DEF Waiting, client, transfer, Local
<1>3. From = c /\ Tail(sq) = <<>>
  BY ShortTails DEF From, Of, AckComes
<1>4. ServeAck
  BY WhatServer DEF AckComes, Measured
<1> DEFINE b == FirstBlock(srest)
<1>5. /\ ToClient(c, <<Block(b)>>) /\ srest' = AfterBlock(srest)
      /\ sq' = <<>> /\ disk' = disk /\ spc' = "get_ack"
  BY <1>3, <1>4 DEF ServeAck, Takes, AckComes, Measured
<1>6. cq'[c] = <<Block(b)>> /\ Remote(c)' = Remote(c)
  BY <1>2, <1>5, FirstAnswer DEF AckComes, Remote
<1>7. b # <<>> /\ b \o srest' = srest
  <2>1. Len(srest) > 0
    BY <1>2, DataIs, EmptySeq DEF AckComes, Data
  <2>2. Len(b) > 0 /\ b \o AfterBlock(srest) = srest
    BY <1>2, <2>1, BlocksAre
  <2> QED BY <1>5, <2>2
<1> HIDE DEF b
<1>8. Len(cq'[c]) = 1 /\ cq'[c][1].bytes = b
  BY <1>6 DEF Block
<1>9. BlockComes(c)'
  BY <1>2, <1>5, <1>6, <1>7, <1>8 DEF BlockComes, Measured, AckComes
<1> QED BY <1>5, <1>6, <1>9 DEF LargeOk

LEMMA GetServed ==
  ASSUME TypeInv, NEW c \in Client, GetOk(c), Fair(c)', ServerStep
  PROVE  GetOk(c)'
<1>1. UNCHANGED <<client, lost>>
  BY ServersFrame DEF Fair
<1>2. cfile' = cfile /\ cpc' = cpc /\ told' = told /\ dir' = dir
  BY <1>1 DEF client, transfer
<1>3. CASE cpc[c] = "dead"
  BY <1>2, <1>3 DEF GetOk
<1>4. CASE cpc[c] = "prompt"
  <2>1. GotOk(c)
    BY <1>4 DEF GetOk
  <2>2. sq # <<>> /\ sq \in Seq(Sent) /\ Here.t = "ack"
    BY <2>1, WhatServer, FilesAre, EmptyOrNot DEF GotOk, Here
  <2>3. ServeAck \/ ServeOther \/ ServeEmpty
    BY <2>1, <2>2, WhatServer DEF GotOk, ServeGet, ServeGetNoFile, ServePut, ServeDelete,
       ServeListOrExit, Commands
  <2>4. /\ disk' = disk /\ spc' \in {"top", "get_ack", "dead"} /\ (sq' = Tail(sq) \/ sq' = <<>>)
    BY <2>1, <2>3 DEF ServeAck, ServeOther, ServeEmpty, Takes, Goto, Die, GotOk
  <2>5. \A i \in 1..Len(sq') : sq'[i].d.t = "ack"
    <3>1. Len(sq) \in Nat \ {0} /\ Len(Tail(sq)) = Len(sq) - 1
          /\ \A i \in 1..Len(sq)-1 : Tail(sq)[i] = sq[i+1]
      BY <2>2, HeadTailProperties, EmptySeq
    <3>2. CASE sq' = <<>>
      BY <3>2
    <3>3. CASE sq' = Tail(sq)
      BY <2>1, <3>1, <3>3 DEF GotOk
    <3> QED BY <2>4, <3>2, <3>3
  <2>6. Remote(c)' = Remote(c) /\ Local(c)' = Local(c)
    BY <1>2, <2>4 DEF Remote, Local
  <2>7. GotOk(c)'
    BY <1>1, <1>2, <2>1, <2>4, <2>5, <2>6 DEF GotOk
  <2> QED BY <1>2, <1>4, <2>7 DEF GetOk
<1>5. CASE cpc[c] = "get_size"
  <2>1. Asking(c)
    BY <1>5, WhatServer DEF GetOk, AskedOk, Refused, Opened, Halved, Nothing, Empty
  <2> QED BY <1>2, <1>5, <2>1, AskedServed DEF GetOk
<1>6. CASE cpc[c] = "get_small"
  BY <1>6, WhatServer DEF GetOk, SmallOk, Nothing, Empty
<1>7. CASE cpc[c] = "get_large"
  <2>1. AckComes(c) /\ Remote(c) # Absent
    BY <1>7, WhatServer DEF GetOk, LargeOk, BlockComes, Nothing, Empty
  <2> QED BY <1>2, <1>7, <2>1, AckServed DEF GetOk
<1> QED BY <1>3, <1>4, <1>5, <1>6, <1>7 DEF GetOk

\* The size of the file, or nothing of it.
LEMMA SizeTaken ==
  ASSUME TypeInv, NEW c \in Client, GetOk(c), cpc[c] = "get_size", Fair(c)', GetSize(c)
  PROVE  GetOk(c)'
<1>1. UNCHANGED <<server, lost, cfile>>
  BY ClientsFrame DEF Fair, GetSize, ClientStep
<1>2. /\ cpc \in [Client -> Waiting \cup {"prompt", "gone", "dead"}]
      /\ ctimer \in [Client -> 0..CTimeout] /\ cq \in [Client -> Seq(ToClients)]
      /\ need \in [Client -> Nat] /\ done \in [Client -> Nat]
      /\ dir \in [Client -> [File -> Data \cup {Absent}]]
  BY TypeParts DEF ClientTypes, QueuesOk
<1>3. cfile[c] \in File /\ (Remote(c) # Absent => Remote(c) \in Data) /\ srest \in Data
  BY FilesAre DEF Transfers, Waiting
<1> DEFINE n == Number(Got(c))
<1>4. /\ cq[c] # <<>> /\ Got(c).t # "no_file" /\ cq'[c] = Tail(cq[c]) /\ sq' = sq
      /\ need'[c] = n /\ done'[c] = 0 /\ Local(c)' = <<>>
      /\ cpc'[c] = (IF IsShort(n) THEN "get_small" ELSE "get_large") /\ ctimer'[c] = CTimeout
      /\ Remote(c)' = Remote(c) /\ spc' = spc /\ srest' = srest /\ lost' = lost
  BY <1>1, <1>2, <1>3 DEF GetSize, Receives, Took, WaitIn, Local, Remote, server
<1>5. AskedOk(c) /\ spc \in {"top", "get_ack"}
  BY DEF GetOk
<1>6. Opened(c) \/ Halved(c)
  <2>1. ~Asking(c) /\ ~Nothing(c)
    BY <1>4 DEF Asking, Nothing, Empty
  <2>2. ~Refused(c)
    <3>1. Refused(c) => Got(c) = Msg("no_file")
      BY ShortTails DEF Refused, Got
    <3> QED BY <1>4, <3>1 DEF Msg
  <2> QED BY <1>5, <2>1, <2>2 DEF AskedOk
<1>7. CASE Opened(c)
  <2> DEFINE data == Remote(c)
             b == FirstBlock(data)
  <2>1. /\ data \in Data /\ b \in Data /\ b \o srest = data /\ Len(data) \in Nat
        /\ Len(data) > 0 => Len(b) > 0
    BY <1>3, <1>7, BlocksAre, DataIs DEF Opened
  <2>2. Got(c) = SizeMsg(Len(data)) /\ Tail(cq[c]) = <<Block(b)>>
    BY <1>7, ShortTails DEF Opened, Opening, Got
  <2>3. n = Len(data)
    BY <2>2 DEF Number, SizeMsg
  <2>4. sq' = <<>> /\ data # Absent /\ spc = IF IsShort(Len(data)) THEN "top" ELSE "get_ack"
    BY <1>4, <1>7 DEF Opened
  <2>5. CASE IsShort(n)
    <3>1. b = data
      BY <2>1, <2>3, <2>5, UftpAssumption DEF FirstBlock, IsShort
    <3>2. SmallOk(c)'
      BY <1>4, <2>2, <2>4, <3>1 DEF SmallOk
    <3> QED BY <1>4, <1>5, <2>5, <3>2 DEF GetOk
  <2>6. CASE ~IsShort(n)
    <3>1. Len(b) > 0 /\ b # <<>>
      BY <2>1, <2>3, <2>6, UftpAssumption DEF IsShort
    <3>2. <<>> \o (b \o srest) = data /\ Len(<<>>) = 0
      BY <2>1, JoinIs
    <3> HIDE DEF data, b, n
    <3>3. Len(cq'[c]) = 1 /\ cq'[c][1].bytes = b
      <4>1. cq'[c] = <<Block(b)>> /\ Block(b).bytes = b
        BY <1>4, <2>2 DEF Block
      <4> QED BY <4>1
    <3>4. Remote(c)' = data
      BY <1>4 DEF data
    <3>5. BlockComes(c)'
      BY <1>4, <2>3, <2>4, <2>6, <3>1, <3>2, <3>3, <3>4 DEF BlockComes, Measured
    <3> QED BY <1>4, <2>4, <2>6, <3>4, <3>5 DEF GetOk, LargeOk
  <2> QED BY <2>5, <2>6
<1>8. CASE Halved(c)
  <2>1. /\ cq'[c] = <<>> /\ sq' = <<>> /\ lost'[c] > 0 /\ Remote(c) # Absent
        /\ n = Len(Remote(c)) \/ n = 0
    <3>1. CASE cq[c] = <<SizeMsg(Len(Remote(c)))>>
      BY <1>4, <1>8, <3>1, ShortTails DEF Halved, Got, Number, SizeMsg
    <3>2. CASE Len(cq[c]) = 1 /\ cq[c][1].t = "block"
      <4>1. cq[c] \in Seq(ToClients)
        BY <1>2
      <4>2. Tail(cq[c]) = <<>> /\ Got(c) = cq[c][1]
        BY <3>2, <4>1, OfOne DEF Got
      <4> QED BY <1>4, <1>8, <3>2, <4>2 DEF Halved, Number
    <3> QED BY <1>8, <3>1, <3>2 DEF Halved
  <2>2. Nothing(c)'
    BY <2>1 DEF Nothing, Empty
  <2>3. CASE IsShort(n)
    BY <1>4, <1>5, <2>2, <2>3 DEF GetOk, SmallOk
  <2>4. CASE ~IsShort(n)
    <3>1. n = Len(Remote(c)) /\ Len(Remote(c)) \in Nat /\ Len(Remote(c)) > 0
      BY <1>3, <2>1, <2>4, UftpAssumption, DataIs DEF IsShort
    <3>2. Begins(<<>>, Remote(c))
      <4>1. SubSeq(Remote(c), 1, 0) = <<>> /\ Len(<<>>) = 0
        BY SubSeqEmpty
      <4> QED BY <3>1, <4>1 DEF Begins
    <3>3. Begins(Local(c), Remote(c))' /\ Remote(c)' # Absent
      BY <1>4, <2>1, <3>2
    <3> QED BY <1>4, <1>5, <2>2, <2>4, <3>3 DEF GetOk, LargeOk
  <2> QED BY <2>3, <2>4
<1> QED BY <1>6, <1>7, <1>8

\* What ends a get.
LEMMA SmallTaken ==
  ASSUME TypeInv, NEW c \in Client, GetOk(c), Fair(c)',
         GetSmall(c) \/ GetNoFile(c) \/ GetTimesOut(c) \/ GetSmallTimesOut(c)
         \/ GetLargeTimesOut(c)
  PROVE  GetOk(c)'
<1>0. ClientStep(c)
  BY DEF ClientStep
<1>1. UNCHANGED <<server, lost, cfile>>
  BY <1>0, ClientsFrame DEF Fair
<1>2. /\ cpc \in [Client -> Waiting \cup {"prompt", "gone", "dead"}]
      /\ ctimer \in [Client -> 0..CTimeout] /\ cq \in [Client -> Seq(ToClients)]
      /\ told \in [Client -> Told] /\ dir \in [Client -> [File -> Data \cup {Absent}]]
  BY TypeParts DEF ClientTypes, QueuesOk
<1>3. /\ cpc[c] \in {"get_size", "get_small", "get_large"}
      /\ Remote(c)' = Remote(c) /\ spc' = spc
  BY <1>1 DEF GetSmall, GetNoFile, GetTimesOut, GetSmallTimesOut, GetLargeTimesOut, Receives,
     TimesOut, Remote, server
<1>4. spc \in {"top", "get_ack"} /\ cfile[c] \in File
  BY <1>3, FilesAre DEF GetOk, Transfers, Waiting
<1>5. ASSUME NEW what, Tells(c, what), sq' = <<>>, what \notin {"nothing"},
             what = "no_file" => Remote(c) = Absent,
             what \in {"get_successful", "lost_get_successful"} =>
               \/ Local(c)' = Remote(c)
               \/ lost[c] > 0 /\ (Local(c)' = <<Junk>> \/ Begins(Local(c)', Remote(c)))
      PROVE  GetOk(c)'
  <2>1. cpc'[c] = "prompt" /\ told'[c] = what
    BY <1>2, <1>5 DEF Tells
  <2>2. GotOk(c)'
    BY <1>1, <1>3, <1>4, <1>5, <2>1 DEF GotOk
  <2> QED BY <2>1, <2>2 DEF GetOk
<1>6. CASE GetNoFile(c)
  <2>1. /\ cpc[c] = "get_size" /\ cq[c] # <<>> /\ Got(c).t = "no_file"
        /\ Tells(c, "no_file") /\ sq' = sq
    BY <1>6 DEF GetNoFile, Receives
  <2>2. ~Asking(c) /\ ~Nothing(c)
    BY <2>1 DEF Asking, Nothing, Empty
  <2>3. ~Opened(c)
    BY <2>1, ShortTails DEF Opened, Opening, Got, SizeMsg
  <2>4. ~Halved(c)
    <3>1. cq[c] \in Seq(ToClients)
      BY <1>2
    <3>2. Len(cq[c]) = 1 => Got(c) = cq[c][1]
      BY <3>1, OfOne DEF Got
    <3> QED BY <2>1, <3>2, ShortTails DEF Halved, Got, SizeMsg
  <2>5. Refused(c)
    BY <2>1, <2>2, <2>3, <2>4 DEF GetOk, AskedOk
  <2> QED BY <1>5, <2>1, <2>5 DEF Refused
<1>7. CASE GetTimesOut(c)
  <2>1. cpc[c] = "get_size" /\ cq[c] = <<>> /\ ctimer[c] = 0 /\ Tells(c, "timeout") /\ sq' = sq
    BY <1>0, <1>7, ClientsFrame DEF GetTimesOut, TimesOut, Fair
  <2>2. ~Asking(c)
    BY <2>1 DEF Asking, Fresh, CTimeout
  <2>3. ~Refused(c) /\ ~Halved(c)
    BY <2>1 DEF Refused, Halved
  <2>4. ~Opened(c)
    BY <2>1 DEF Opened, Opening
  <2>5. sq = <<>>
    BY <2>1, <2>2, <2>3, <2>4 DEF GetOk, AskedOk, Nothing, Empty
  <2> QED BY <1>5, <2>1, <2>5
<1>8. CASE GetSmall(c)
  <2>1. /\ cpc[c] = "get_small" /\ cq[c] # <<>> /\ Tells(c, "get_successful") /\ sq' = sq
        /\ dir' = [dir EXCEPT ![c][cfile[c]] = Got(c).bytes]
    BY <1>8 DEF GetSmall, Receives
  <2>2. sq = <<>> /\ Remote(c) # Absent /\ cq[c] = <<Block(Remote(c))>>
    BY <2>1 DEF GetOk, SmallOk, Nothing, Empty
  <2>3. Got(c).bytes = Remote(c)
    BY <2>2, ShortTails DEF Got, Block
  <2>4. Local(c)' = Remote(c)
    BY <1>1, <1>2, <1>4, <2>1, <2>3 DEF Local
  <2> QED BY <1>5, <2>1, <2>2, <2>4
<1>9. CASE GetSmallTimesOut(c)
  <2>1. /\ cpc[c] = "get_small" /\ cq[c] = <<>> /\ sq' = sq
        /\ dir' = [dir EXCEPT ![c][cfile[c]] = <<Junk>>]
        /\ Tells(c, "get_successful") \/ cpc' = [cpc EXCEPT ![c] = "dead"]
    BY <1>0, <1>9, ClientsFrame DEF GetSmallTimesOut, TimesOut, Fair
  <2>2. Nothing(c)
    BY <2>1 DEF GetOk, SmallOk
  <2>3. Local(c)' = <<Junk>>
    BY <1>1, <1>2, <1>4, <2>1 DEF Local
  <2>4. CASE cpc' = [cpc EXCEPT ![c] = "dead"]
    BY <1>2, <2>4 DEF GetOk
  <2> QED BY <1>5, <2>1, <2>2, <2>3, <2>4 DEF Nothing, Empty
<1>10. CASE GetLargeTimesOut(c)
  <2>1. /\ cpc[c] = "get_large" /\ cq[c] = <<>> /\ ctimer[c] = 0 /\ sq' = sq /\ dir' = dir
        /\ Tells(c, "lost_get_successful")
    BY <1>0, <1>10, ClientsFrame DEF GetLargeTimesOut, TimesOut, Fair
  <2>2. ~AckComes(c) /\ ~BlockComes(c)
    BY <2>1 DEF AckComes, BlockComes, Fresh, CTimeout
  <2>3. Nothing(c) /\ Begins(Local(c), Remote(c))
    BY <2>1, <2>2 DEF GetOk, LargeOk
  <2>4. Local(c)' = Local(c)
    BY <1>1, <2>1 DEF Local
  <2> QED BY <1>5, <2>1, <2>3, <2>4 DEF Nothing, Empty
<1> QED BY <1>6, <1>7, <1>8, <1>9, <1>10

LEMMA BlockTakenIn ==
  ASSUME TypeInv, NEW c \in Client, GetOk(c), Fair(c)', GetLarge(c)
  PROVE  GetOk(c)'
<1>1. UNCHANGED <<server, lost, cfile>>
  BY ClientsFrame DEF Fair, GetLarge, ClientStep
<1>2. /\ cpc \in [Client -> Waiting \cup {"prompt", "gone", "dead"}]
      /\ ctimer \in [Client -> 0..CTimeout] /\ cq \in [Client -> Seq(ToClients)]
      /\ need \in [Client -> Nat] /\ done \in [Client -> Nat] /\ told \in [Client -> Told]
      /\ dir \in [Client -> [File -> Data \cup {Absent}]]
  BY TypeParts DEF ClientTypes, QueuesOk
<1>3. cpc[c] = "get_large" /\ cq[c] # <<>>
  BY DEF GetLarge, Receives
<1>4. BlockComes(c) /\ Remote(c) # Absent
  BY <1>3 DEF GetOk, LargeOk, AckComes, Nothing, Empty
<1>5. cfile[c] \in File /\ Local(c) \in Data /\ srest \in Data /\ cq[c] \in Seq(ToClients)
  BY <1>3, FilesAre DEF Transfers, Waiting
<1> DEFINE b == cq[c][1].bytes
<1>6. Got(c).bytes = b /\ Tail(cq[c]) = <<>> /\ b \in Data
  <2>1. Head(cq[c]) = cq[c][1] /\ Tail(cq[c]) = <<>> /\ cq[c][1] \in ToClients
    BY <1>4, <1>5, OfOne DEF BlockComes
  <2> QED BY <2>1, DatagramIs DEF Got, ToClients
<1> DEFINE received == done[c] + Len(b)
<1>7. /\ ToServer(c, <<Ack>>) /\ done' = [done EXCEPT ![c] = received]
      /\ dir' = [dir EXCEPT ![c][cfile[c]] = @ \o b]
      /\ cq'[c] = <<>> /\ need' = need
      /\ IF received < need[c] THEN WaitIn(c, "get_large") ELSE Tells(c, "get_successful")
  BY <1>2, <1>6 DEF GetLarge, Took
<1>8. Local(c)' = Local(c) \o b
  BY <1>1, <1>2, <1>5, <1>7 DEF Local
<1>9. /\ b # <<>> /\ Local(c) \o (b \o srest) = Remote(c) /\ sq = <<>> /\ spc = "get_ack"
      /\ done[c] = Len(Local(c)) /\ need[c] = Len(Remote(c))
  BY <1>4 DEF BlockComes, Measured
<1> HIDE DEF b
<1>10. /\ (Local(c) \o b) \o srest = Remote(c) /\ Len(Local(c) \o b) = received
       /\ Len(Remote(c)) = received + Len(srest) /\ received \in Nat /\ Len(srest) \in Nat
       /\ Len(srest) = 0 <=> srest = <<>>
  <2>1. (Local(c) \o b) \o srest = Remote(c) /\ Local(c) \o b \in Data
    <3>1. (Local(c) \o b) \o srest = Local(c) \o (b \o srest) /\ Local(c) \o b \in Data
      <4> DEFINE a == Local(c)
      <4>1. a \in Data /\ b \in Data /\ srest \in Data
        BY <1>5, <1>6
      <4> HIDE DEF a
      <4>2. (a \o b) \o srest = a \o (b \o srest)
        BY <4>1, JoinsJoin
      <4>3. a \o b \in Data
        BY <4>1, DataIs
      <4> QED BY <4>2, <4>3 DEF a
    <3> QED BY <1>9, <3>1
  <2>2. Len(Local(c) \o b) = Len(Local(c)) + Len(b) /\ Len(b) \in Nat /\ Len(Local(c)) \in Nat
    <3> DEFINE a == Local(c)
    <3>1. a \in Data /\ b \in Data
      BY <1>5, <1>6
    <3> HIDE DEF a
    <3>2. Len(a \o b) = Len(a) + Len(b) /\ Len(b) \in Nat /\ Len(a) \in Nat
      BY <3>1, DataIs
    <3> QED BY <3>2 DEF a
  <2>3. Len((Local(c) \o b) \o srest) = Len(Local(c) \o b) + Len(srest) /\ Len(srest) \in Nat
    BY <1>5, <2>1, DataIs
  <2>4. Len(srest) = 0 <=> srest = <<>>
    BY <1>5, JoinIs
  <2> QED BY <1>9, <2>1, <2>2, <2>3, <2>4
<1>11. sq' = <<Of(c, Ack)>>
  BY <1>7, <1>9, FirstSent
<1>12. /\ Remote(c)' = Remote(c) /\ spc' = "get_ack" /\ srest' = srest /\ need'[c] = need[c]
       /\ done'[c] = received /\ lost' = lost
  BY <1>1, <1>2, <1>7, <1>9 DEF Remote, server
<1> HIDE DEF received
<1>13. CASE received < need[c]
  <2>1. cpc'[c] = "get_large" /\ ctimer'[c] = CTimeout
    BY <1>2, <1>7, <1>13 DEF WaitIn
  <2>2. srest # <<>>
    BY <1>9, <1>10, <1>13
  <2>3. AckComes(c)'
    BY <1>7, <1>8, <1>9, <1>10, <1>11, <1>12, <2>1, <2>2 DEF AckComes, Measured, Fresh
  <2>4. LargeOk(c)'
    BY <1>4, <1>12, <2>3 DEF LargeOk
  <2> QED BY <1>12, <2>1, <2>4 DEF GetOk
<1>14. CASE ~(received < need[c])
  <2>1. cpc'[c] = "prompt" /\ told'[c] = "get_successful"
    BY <1>2, <1>7, <1>14 DEF Tells
  <2>2. srest = <<>>
    BY <1>9, <1>10, <1>14
  <2>3. Local(c)' = Remote(c)'
    <3>1. Local(c) \o b \in Data
      BY <1>5, <1>6, DataIs
    <3>2. (Local(c) \o b) \o <<>> = Local(c) \o b
      BY <3>1, JoinIs
    <3> QED BY <1>8, <1>10, <1>12, <2>2, <3>2
  <2>4. sq'[1].d.t = "ack" /\ Len(sq') = 1
    BY <1>11 DEF Of, Ack, FullMsg
  <2>5. GotOk(c)'
    BY <1>12, <2>1, <2>3, <2>4 DEF GotOk
  <2> QED BY <2>1, <2>5 DEF GetOk
<1> QED BY <1>13, <1>14

LEMMA GetAnswered ==
  ASSUME TypeInv, NEW c \in Client, GetOk(c), Fair(c)', ClientStep(c)
  PROVE  GetOk(c)'
<1>1. cpc[c] \in {"get_size", "get_small", "get_large"}
  BY WhatClient DEF GetOk, Waiting
<1> QED BY <1>1, WhatClient, SizeTaken, SmallTaken, BlockTakenIn

LEMMA GetLoses ==
  ASSUME TypeInv, NEW c \in Client, GetOk(c), Fair(c)', Lose
  PROVE  GetOk(c)'
<1>1. /\ UNCHANGED <<client, server>> /\ lost'[c] > 0
      /\ \/ cq'[c] = cq[c] /\ \E i \in DOMAIN sq : sq' = Drop(sq, i)
         \/ sq' = sq /\ \E i \in DOMAIN cq[c] : cq'[c] = Drop(cq[c], i)
         \/ sq' = sq /\ cq'[c] = cq[c]
  BY LossIs DEF Fair
<1>2. /\ Remote(c)' = Remote(c) /\ Local(c)' = Local(c) /\ cpc' = cpc /\ told' = told /\ spc' = spc
      /\ cfile' = cfile /\ ctimer' = ctimer /\ srest' = srest /\ need' = need /\ done' = done
      /\ Fresh(c)' = Fresh(c) /\ (Measured(c)' <=> Measured(c))
  BY <1>1 DEF Remote, Local, Fresh, Measured, client, transfer, server
<1>3. sq \in Seq(Sent) /\ cq[c] \in Seq(ToClients) /\ srest \in Data
      /\ (cpc[c] \in {"get_small", "get_large"} => Local(c) \in Data)
  BY FilesAre
<1>4. CASE cpc[c] = "dead"
  BY <1>2, <1>4 DEF GetOk
<1>5. CASE cpc[c] = "prompt"
  <2>1. GotOk(c)
    BY <1>5 DEF GetOk
  <2>2. \A i \in 1..Len(sq') : sq'[i].d.t = "ack"
    <3>1. ASSUME NEW i \in DOMAIN sq, sq' = Drop(sq, i) PROVE \A j \in 1..Len(sq') : sq'[j].d.t = "ack"
      <4>1. /\ Len(Drop(sq, i)) = Len(sq) - 1 /\ i \in 1..Len(sq) /\ Len(sq) \in Nat
            /\ \A j \in 1..Len(sq)-1 : Drop(sq, i)[j] = IF j < i THEN sq[j] ELSE sq[j+1]
        BY <1>3, DropIs, LenProperties
      <4> QED BY <2>1, <3>1, <4>1 DEF GotOk
    <3> QED BY <1>1, <2>1, <3>1 DEF GotOk
  <2>3. GotOk(c)'
    BY <1>1, <1>2, <2>1, <2>2 DEF GotOk
  <2> QED BY <1>2, <1>5, <2>3 DEF GetOk
<1>6. ASSUME Nothing(c) PROVE Nothing(c)'
  BY <1>1, <1>6 DEF Nothing, Empty
<1>7. CASE cpc[c] = "get_size"
  <2>1. /\ spc \in {"top", "get_ack"}
        /\ Asking(c) \/ Refused(c) \/ Opened(c) \/ Halved(c) \/ Nothing(c)
    BY <1>7 DEF GetOk, AskedOk
  <2>2. CASE Asking(c)
    <3>1. (sq' = sq \/ sq' = <<>>) /\ cq'[c] = <<>>
      BY <1>1, <2>2, Drops DEF Asking
    <3> QED BY <1>1, <1>2, <1>7, <2>1, <2>2, <3>1 DEF GetOk, AskedOk, Asking, Nothing, Empty
  <2>3. CASE Refused(c)
    <3>1. (cq'[c] = cq[c] \/ cq'[c] = <<>>) /\ sq' = <<>>
      BY <1>1, <2>3, Drops DEF Refused
    <3> QED BY <1>1, <1>2, <1>7, <2>1, <2>3, <3>1 DEF GetOk, AskedOk, Refused, Nothing, Empty
  <2>4. CASE Opened(c)
    <3> DEFINE first == Block(FirstBlock(Remote(c)))
    <3>1. cq[c] = <<SizeMsg(Len(Remote(c))), first>> /\ sq = <<>>
      BY <2>4 DEF Opened, Opening
    <3> HIDE DEF first
    <3>2. /\ cq'[c] = cq[c] \/ cq'[c] = <<SizeMsg(Len(Remote(c)))>> \/ cq'[c] = <<first>>
          /\ sq' = <<>>
      BY <1>1, <3>1, Drops
    <3>3. first.t = "block"
      BY DEF first, Block
    <3>4. CASE cq'[c] = cq[c]
      BY <1>2, <1>7, <2>1, <2>4, <3>2, <3>4 DEF GetOk, AskedOk, Opened
    <3>5. CASE cq'[c] = <<SizeMsg(Len(Remote(c)))>> \/ cq'[c] = <<first>>
      <4>1. cq'[c] = <<first>> => Len(cq'[c]) = 1 /\ cq'[c][1].t = "block"
        BY <3>3
      <4>2. cq'[c] = <<SizeMsg(Len(Remote(c)))>> => cq'[c] = <<SizeMsg(Len(Remote(c)'))>>
        BY <1>2
      <4>3. Remote(c)' # Absent
        BY <1>2, <2>4 DEF Opened
      <4>4. Halved(c)'
        BY <1>1, <3>2, <3>5, <4>1, <4>2, <4>3 DEF Halved
      <4> QED BY <1>2, <1>7, <2>1, <4>4 DEF GetOk, AskedOk
    <3> QED BY <3>2, <3>4, <3>5
  <2>5. CASE Halved(c)
    <3>1. sq' = <<>> /\ Remote(c)' # Absent
      BY <1>1, <1>2, <2>5 DEF Halved
    <3> DEFINE size == SizeMsg(Len(Remote(c)))
    <3>2. cq[c] = <<size>> \/ Len(cq[c]) = 1
      BY <2>5 DEF Halved
    <3> HIDE DEF size
    <3>3. cq[c] = <<cq[c][1]>>
      BY <1>3, <3>2, OfOne
    <3>4. cq'[c] = cq[c] \/ cq'[c] = <<>>
      <4>1. \A i \in DOMAIN cq[c] : Drop(cq[c], i) = <<>>
        BY <3>3, Drops
      <4> QED BY <1>1, <4>1
    <3>5. Halved(c)' \/ Nothing(c)'
      BY <1>1, <1>2, <2>5, <3>1, <3>4 DEF Halved, Nothing, Empty
    <3> QED BY <1>2, <1>7, <2>1, <3>5 DEF GetOk, AskedOk
  <2>6. CASE Nothing(c)
    BY <1>2, <1>6, <1>7, <2>1, <2>6 DEF GetOk, AskedOk
  <2> QED BY <2>1, <2>2, <2>3, <2>4, <2>5, <2>6
<1>8. CASE cpc[c] = "get_small"
  <2>1. spc \in {"top", "get_ack"} /\ SmallOk(c)
    BY <1>8 DEF GetOk
  <2>2. ASSUME sq = <<>>, Remote(c) # Absent, cq[c] = <<Block(Remote(c))>>
        PROVE  SmallOk(c)'
    <3>1. (cq'[c] = cq[c] \/ cq'[c] = <<>>) /\ sq' = <<>>
      BY <1>1, <2>2, Drops
    <3> QED BY <1>1, <1>2, <2>2, <3>1 DEF SmallOk, Nothing, Empty
  <2>3. SmallOk(c)'
    BY <1>6, <2>1, <2>2 DEF SmallOk
  <2> QED BY <1>2, <1>8, <2>1, <2>3 DEF GetOk
<1>9. CASE cpc[c] = "get_large"
  <2>1. /\ Remote(c) # Absent /\ Local(c) \in Data /\ spc \in {"top", "get_ack"}
        /\ AckComes(c) \/ BlockComes(c) \/ (Nothing(c) /\ Begins(Local(c), Remote(c)))
    BY <1>3, <1>9 DEF GetOk, LargeOk
  <2>2. CASE AckComes(c)
    <3>1. (sq' = sq \/ sq' = <<>>) /\ cq'[c] = <<>>
      BY <1>1, <2>2, Drops DEF AckComes
    <3>2. Begins(Local(c), Remote(c))
      BY <1>3, <2>1, <2>2, BeginsIs DEF AckComes
    <3>3. LargeOk(c)'
      BY <1>1, <1>2, <2>1, <2>2, <3>1, <3>2 DEF LargeOk, AckComes, Nothing, Empty
    <3> QED BY <1>2, <1>9, <2>1, <3>3 DEF GetOk
  <2>3. CASE BlockComes(c)
    <3> DEFINE b == cq[c][1].bytes
    <3>1. cq[c] = <<cq[c][1]>> /\ b \in Data /\ b # <<>>
      <4>1. cq[c] = <<cq[c][1]>> /\ cq[c][1] \in ToClients
        BY <1>3, <2>3, OfOne DEF BlockComes
      <4> QED BY <2>3, <4>1, DatagramIs DEF BlockComes, ToClients
    <3>2. (cq'[c] = cq[c] \/ cq'[c] = <<>>) /\ sq' = <<>>
      BY <1>1, <2>3, <3>1, Drops DEF BlockComes
    <3>3. Begins(Local(c), Remote(c))
      <4>1. b \o srest \in Data /\ Len(b \o srest) = Len(b) + Len(srest) /\ Len(srest) \in Nat
        BY <1>3, <3>1, DataIs
      <4>2. Len(b) \in Nat /\ Len(b) # 0
        BY <3>1, JoinIs
      <4>3. b \o srest # <<>>
        BY <4>1, <4>2
      <4> QED BY <2>1, <2>3, <4>1, <4>3, BeginsIs DEF BlockComes
    <3>4. LargeOk(c)'
      BY <1>1, <1>2, <2>1, <2>3, <3>2, <3>3 DEF LargeOk, BlockComes, Nothing, Empty
    <3> QED BY <1>2, <1>9, <2>1, <3>4 DEF GetOk
  <2>4. CASE Nothing(c) /\ Begins(Local(c), Remote(c))
    <3>1. LargeOk(c)'
      BY <1>2, <1>6, <2>1, <2>4 DEF LargeOk
    <3> QED BY <1>2, <1>9, <2>1, <3>1 DEF GetOk
  <2> QED BY <2>1, <2>2, <2>3, <2>4
<1> QED BY <1>4, <1>5, <1>7, <1>8, <1>9 DEF GetOk

\* As time passes, c waits for nothing that is under way.
LEMMA GetTicks ==
  ASSUME TypeInv, NEW c \in Client, GetOk(c), Fair(c)', Tick
  PROVE  GetOk(c)'
<1>1. /\ UNCHANGED <<cpc, transfer, dir, told, spc, srest, disk, sq, cq, lost>>
      /\ sq = <<>> /\ (cpc[c] \in Waiting => cq[c] = <<>>)
  BY TickIs DEF Fair
<1>2. Remote(c)' = Remote(c) /\ Local(c)' = Local(c) /\ cfile' = cfile
  BY <1>1 DEF Remote, Local, transfer
<1>3. CASE cpc[c] \in {"prompt", "dead"}
  BY <1>1, <1>2, <1>3 DEF GetOk, GotOk
<1>4. CASE cpc[c] \in {"get_size", "get_small", "get_large"}
  <2>1. cq[c] = <<>> /\ Opening(Remote(c)) # <<>>
    BY <1>1, <1>4 DEF Waiting, Opening
  <2>2. Nothing(c) /\ spc \in {"top", "get_ack"}
        /\ (cpc[c] = "get_large" => Remote(c) # Absent /\ Begins(Local(c), Remote(c)))
    BY <1>1, <1>4, <2>1 DEF GetOk, AskedOk, SmallOk, LargeOk, Asking, Refused, Opened, Halved,
       BlockComes, AckComes
  <2>3. Nothing(c)'
    BY <1>1, <2>2 DEF Nothing, Empty
  <2> QED BY <1>1, <1>2, <1>4, <2>2, <2>3 DEF GetOk, AskedOk, SmallOk, LargeOk
<1> QED BY <1>3, <1>4 DEF GetOk

LEMMA DeleteTicks ==
  ASSUME TypeInv, NEW c \in Client, DeleteOk(c), Fair(c)', Tick
  PROVE  DeleteOk(c)'
<1>1. /\ UNCHANGED <<cpc, transfer, dir, told, spc, srest, disk, sq, cq, lost>>
      /\ sq = <<>> /\ (cpc[c] \in Waiting => cq[c] = <<>>)
  BY TickIs DEF Fair
<1> QED BY <1>1 DEF DeleteOk, Empty, Remote, transfer

(* ----------------------------- losses: put ----------------------------- *)

LEMMA PutFacts ==
  ASSUME TypeInv, NEW c \in Client, cpc[c] \in {"put_ack", "put_final"}, Local(c) # Absent
  PROVE  /\ cfile[c] \in File /\ Local(c) \in Data /\ rest[c] \in Data
         /\ (Remote(c) # Absent => Remote(c) \in Data)
         /\ sq \in Seq(Sent) /\ cq[c] \in Seq(ToClients) /\ cq \in [Client -> Seq(ToClients)]
         /\ disk \in [File -> Data \cup {Absent}] /\ cpc[c] \in Waiting
         /\ sdone \in Nat /\ sneed \in Nat /\ stimer \in 0..STimeout /\ ctimer[c] \in 0..CTimeout
<1>1. cpc[c] \in Transfers /\ cpc[c] \in Waiting
  BY DEF Transfers, Waiting
<1>2. /\ disk \in [File -> Data \cup {Absent}] /\ cq \in [Client -> Seq(ToClients)]
      /\ sdone \in Nat /\ sneed \in Nat /\ stimer \in 0..STimeout /\ ctimer[c] \in 0..CTimeout
  BY TypeParts DEF ServerTypes, ClientTypes, QueuesOk
<1> QED BY <1>1, <1>2, FilesAre

\* The only datagram on its way.
LEMMA OneGoes ==
  ASSUME TypeInv, NEW c \in Client, BlockGoes(c)
  PROVE  /\ Here = sq[1].d /\ From = c /\ sq # <<>> /\ Tail(sq) = <<>> /\ sq = <<sq[1]>>
         /\ Here.bytes \in Data
<1>1. sq \in Seq(Sent)
  BY FilesAre
<1>2. sq = <<sq[1]>> /\ sq # <<>> /\ Head(sq) = sq[1] /\ Tail(sq) = <<>> /\ sq[1] \in Sent
  BY <1>1, OfOne DEF BlockGoes
<1>3. sq[1].d.bytes \in Data
  BY <1>2, DatagramIs DEF Sent, ToServers
<1> QED BY <1>2, <1>3 DEF Here, From, BlockGoes

\* The server takes the request, then the size.
LEMMA OpensServed ==
  ASSUME TypeInv, NEW c \in Client, cpc[c] \in {"put_ack", "put_final"}, Local(c) # Absent,
         OpensOk(c), Fair(c)', lost'[c] <= 1, ServerStep
  PROVE  Putting(c)'
<1>1. UNCHANGED client /\ lost' = lost
  BY ServersFrame DEF Fair
<1>2. /\ cfile[c] \in File /\ Local(c) \in Data /\ disk \in [File -> Data \cup {Absent}]
      /\ rest[c] \in Data
  BY PutFacts
<1>3. /\ cfile' = cfile /\ cpc' = cpc /\ ctimer' = ctimer /\ rest' = rest /\ Local(c)' = Local(c)
      /\ PutMsg(c)' = PutMsg(c) /\ SizeOf(c)' = SizeOf(c) /\ FirstOf(c)' = FirstOf(c)
  BY <1>1 DEF client, transfer, Local, PutMsg, SizeOf, FirstOf
<1>4. /\ PutMsg(c).d.t = "put" /\ PutMsg(c).d.file = cfile[c] /\ PutMsg(c).d.bytes # <<>>
      /\ SizeOf(c).d.t = "size" /\ FirstOf(c).d.t = "block"
      /\ Number(SizeOf(c).d) = Len(Local(c)) /\ Number(FirstOf(c).d) = 0
  BY DEF PutMsg, SizeOf, FirstOf, Of, Request, SizeMsg, Block, Number
<1> HIDE DEF PutMsg, SizeOf, FirstOf
<1>5. CASE spc = "top"
  <2>1. /\ Head(sq) = PutMsg(c)
        /\ \/ Tail(sq) = <<SizeOf(c), FirstOf(c)>>
           \/ lost[c] > 0 /\ Tail(sq) \in {<<SizeOf(c)>>, <<FirstOf(c)>>}
    <3>1. CASE sq = <<PutMsg(c), SizeOf(c), FirstOf(c)>>
      BY <3>1, ShortTails
    <3>2. CASE sq = <<PutMsg(c), SizeOf(c)>> /\ lost[c] > 0
      BY <3>2, ShortTails
    <3>3. CASE sq = <<PutMsg(c), FirstOf(c)>> /\ lost[c] > 0
      BY <3>3, ShortTails
    <3> QED BY <1>5, <3>1, <3>2, <3>3 DEF OpensOk
  <2>2. ServePut
    BY <1>4, <1>5, <2>1, WhatServer DEF ServeGet, ServeGetNoFile, ServeDelete, ServeListOrExit,
       ServeOther, ServeEmpty, Commands, Here
  <2>3. spc' = "put_size" /\ sfile' = cfile[c] /\ sq' = Tail(sq) /\ cq' = cq
    BY <1>4, <2>1, <2>2 DEF ServePut, Takes, Goto, Here
  <2>4. OpensOk(c)'
    BY <1>1, <1>3, <2>1, <2>3 DEF OpensOk, Fresh
  <2> QED BY <2>4 DEF Putting
<1>6. CASE spc = "put_size"
  <2>1. /\ sfile = cfile[c]
        /\ \/ Head(sq) = SizeOf(c) /\ Tail(sq) = <<FirstOf(c)>>
           \/ lost[c] > 0 /\ Head(sq) \in {SizeOf(c), FirstOf(c)} /\ Tail(sq) = <<>>
        /\ sq # <<>>
    <3>1. CASE sq = <<SizeOf(c), FirstOf(c)>>
      BY <1>6, <3>1, ShortTails DEF OpensOk
    <3>2. CASE sq = <<SizeOf(c)>> /\ lost[c] > 0
      <4>1. Head(sq) = SizeOf(c) /\ Tail(sq) = <<>> /\ sq # <<>>
        BY <3>2, ShortTails
      <4> QED BY <1>6, <3>2, <4>1 DEF OpensOk
    <3>3. CASE sq = <<FirstOf(c)>> /\ lost[c] > 0
      <4>1. Head(sq) = FirstOf(c) /\ Tail(sq) = <<>> /\ sq # <<>>
        BY <3>3, ShortTails
      <4> QED BY <1>6, <3>3, <4>1 DEF OpensOk
    <3> QED BY <1>6, <3>1, <3>2, <3>3 DEF OpensOk
  <2>2. ServePutSize
    BY <1>4, <1>6, <2>1, WhatServer, ServersFrame DEF ServePutNoFile, PutSizeTimesOut, Here, Fair
  <2> DEFINE n == Number(Here)
  <2>3. /\ sq' = Tail(sq) /\ cq' = cq /\ Remote(c)' = <<>> /\ sneed' = n /\ sdone' = 0
        /\ spc' = (IF IsShort(n) THEN "put_small" ELSE "put_large") /\ stimer' = STimeout
        /\ sfile' = cfile[c]
    BY <1>2, <1>3, <2>1, <2>2 DEF ServePutSize, Expect, Goto, Remote, InPut
  <2>4. /\ n = Len(Local(c)) \/ n = 0
        /\ Head(sq) = SizeOf(c) => n = Len(Local(c))
    BY <1>4, <2>1 DEF Here
  <2>5. Len(Local(c)) \in Nat /\ Len(rest[c]) \in Nat /\ <<>> # Absent
        /\ Buf \in Nat /\ Buf > 0
    BY <1>2, DataIs, UftpAssumption
  <2>6. /\ FirstBlock(Local(c)) \in Data /\ FirstBlock(Local(c)) \o rest[c] = Local(c)
        /\ Len(FirstBlock(Local(c))) + Len(rest[c]) = Len(Local(c))
        /\ Len(Local(c)) > 0 => Len(FirstBlock(Local(c))) > 0
        /\ Len(FirstBlock(Local(c))) \in Nat
    BY <1>2, BlocksAre, DataIs DEF OpensOk
  <2> HIDE DEF n
  <2>7. ctimer'[c] = CTimeout /\ cq'[c] = <<>>
        /\ cpc'[c] = IF IsShort(Len(Local(c))) THEN "put_final" ELSE "put_ack"
    BY <1>3, <2>3 DEF OpensOk, Fresh
  <2>8. CASE lost[c] > 0 /\ Tail(sq) = <<>>
    <3>1. Nothing(c)'
      BY <1>1, <2>3, <2>7, <2>8 DEF Nothing, Empty
    <3>2. stimer' >= ctimer'[c] + 3 /\ stimer' >= ctimer'[c] + 1
      BY <2>3, <2>7 DEF STimeout, CTimeout
    <3>3. CASE IsShort(n)
      <4>1. spc' = "put_small"
        BY <2>3, <3>3
      <4>2. LackWaits(c)'
        BY <2>7, <3>1, <3>2, <4>1 DEF LackWaits, Missing, Later
      <4> QED BY <4>2 DEF Putting
    <3>4. CASE ~IsShort(n)
      <4>1. n = Len(Local(c)) /\ spc' = "put_large" /\ Len(Local(c)) > 0
        BY <2>3, <2>4, <2>5, <3>4 DEF IsShort
      <4>2. cpc'[c] = "put_ack" /\ sdone' + Len(rest'[c]) < sneed'
        BY <1>3, <2>3, <2>5, <2>6, <2>7, <3>4, <4>1
      <4>3. LackWaits(c)'
        BY <3>1, <3>2, <4>1, <4>2 DEF LackWaits, Missing, Later
      <4> QED BY <4>3 DEF Putting
    <3> QED BY <3>3, <3>4
  <2>9. CASE Head(sq) = SizeOf(c) /\ Tail(sq) = <<FirstOf(c)>>
    <3>1. n = Len(Local(c)) /\ sq' = <<FirstOf(c)>>
      BY <2>3, <2>4, <2>9
    <3>2. CASE IsShort(n)
      <4>1. FirstBlock(Local(c)) = Local(c)
        BY <2>5, <3>1, <3>2 DEF FirstBlock, IsShort
      <4>2. sq' = <<Of(c, Block(Local(c)'))>>
        BY <1>3, <3>1, <4>1 DEF FirstOf
      <4>3. ShortGoes(c)'
        BY <1>3, <2>3, <2>7, <3>1, <3>2, <4>2 DEF ShortGoes, Fresh
      <4> QED BY <4>3 DEF Putting
    <3>3. CASE ~IsShort(n)
      <4> DEFINE b == FirstBlock(Local(c))
      <4>1. Len(b) > 0 /\ b # <<>> /\ <<>> \o (b \o rest[c]) = Local(c)
        BY <1>2, <2>5, <2>6, <3>1, <3>3, JoinIs DEF IsShort
      <4>2. FirstOf(c).from = c /\ FirstOf(c).d.t = "block" /\ FirstOf(c).d.bytes = b
        BY DEF FirstOf, Of, Block
      <4> HIDE DEF b
      <4>3. Len(sq') = 1 /\ sq'[1] = FirstOf(c)
        BY <3>1
      <4>4. BlockGoes(c)'
        BY <2>7, <4>2, <4>3 DEF BlockGoes, Fresh
      <4>5. Written(c)'
        BY <1>3, <2>3, <2>5, <2>7, <3>1, <3>3 DEF Written
      <4>6. DataGoes(c)'
        BY <1>3, <2>3, <4>1, <4>2, <4>3, <4>4, <4>5 DEF DataGoes
      <4> QED BY <4>6 DEF Putting
    <3> QED BY <3>2, <3>3
  <2> QED BY <2>1, <2>8, <2>9
<1> QED BY <1>5, <1>6 DEF OpensOk

\* What an answer of one datagram, or of two, does.
LEMMA BlockStored ==
  ASSUME TypeInv, NEW c \in Client, cpc[c] \in {"put_ack", "put_final"}, Local(c) # Absent,
         DataGoes(c), Fair(c)', lost'[c] <= 1, ServerStep
  PROVE  Putting(c)'
<1>1. UNCHANGED client /\ lost' = lost
  BY ServersFrame DEF Fair
<1>2. /\ cfile[c] \in File /\ Local(c) \in Data /\ disk \in [File -> Data \cup {Absent}]
      /\ rest[c] \in Data /\ Remote(c) \in Data /\ cpc[c] \in Waiting
      /\ sdone = Len(Remote(c)) /\ sneed = Len(Local(c)) /\ sfile = cfile[c]
  BY PutFacts DEF DataGoes, Written
<1>3. /\ cfile' = cfile /\ cpc' = cpc /\ ctimer' = ctimer /\ rest' = rest /\ Local(c)' = Local(c)
  BY <1>1 DEF client, transfer, Local
<1> DEFINE b == Here.bytes
<1>4. From = c /\ sq # <<>> /\ Tail(sq) = <<>> /\ b \in Data /\ b # <<>>
      /\ Remote(c) \o (b \o rest[c]) = Local(c) /\ cq[c] = <<>> /\ Fresh(c)
      /\ spc = "put_large" /\ cpc[c] = "put_ack"
  BY OneGoes DEF DataGoes, BlockGoes, Written
<1>5. ServePutLarge
  BY <1>4, WhatServer, ServersFrame DEF PutLargeTimesOut, Fair
<1> DEFINE received == sdone + Len(b)
           mine == Remote(c) \o b
<1>6. mine \in Data /\ Len(mine) = received /\ mine # Absent /\ mine \o rest[c] = Local(c)
      /\ received + Len(rest[c]) = Len(Local(c))
      /\ received \in Nat /\ Len(rest[c]) \in Nat
  <2>1. mine \in Data /\ Len(mine) = received /\ received \in Nat
    BY <1>2, <1>4, DataIs
  <2>2. mine \o rest[c] = Local(c)
    BY <1>2, <1>4, JoinsJoin
  <2>3. Len(mine \o rest[c]) = Len(mine) + Len(rest[c]) /\ Len(rest[c]) \in Nat
    BY <1>2, <2>1, DataIs
  <2> QED BY <2>1, <2>2, <2>3, DataIs
<1>7. /\ sq' = <<>> /\ Remote(c)' = mine
      /\ IF received < sneed
           THEN /\ ToClient(c, <<Ack>>) /\ sdone' = received /\ Goto("put_large")
                /\ UNCHANGED <<sfile, sneed, srest>>
           ELSE ToClient(c, <<Ack, FullMsg("put_successful")>>) /\ Goto("top")
  BY <1>2, <1>3, <1>4, <1>5 DEF ServePutLarge, Takes, Remote
<1> HIDE DEF b, received, mine
<1>8. CASE received < sneed
  <2>1. cq'[c] = <<Ack>> /\ spc' = "put_large" /\ stimer' = STimeout /\ sdone' = received
        /\ sfile' = sfile /\ sneed' = sneed
    BY <1>2, <1>4, <1>7, <1>8, FirstAnswer DEF Goto, InPut
  <2>2. rest[c] # <<>>
    BY <1>2, <1>6, <1>8, JoinIs
  <2>3. AckBack(c)'
    BY <1>2, <1>3, <1>4, <1>6, <1>7, <2>1, <2>2 DEF AckBack, Written, Fresh
  <2> QED BY <2>3 DEF Putting
<1>9. CASE ~(received < sneed)
  <2>1. cq'[c] = <<Ack, Stored>> /\ spc' = "top"
    BY <1>2, <1>4, <1>7, <1>9, FirstAnswer DEF Goto, Stored
  <2>2. rest[c] = <<>>
    BY <1>2, <1>6, <1>9, JoinIs
  <2>3. mine = Local(c)
    <3>1. mine \o <<>> = mine
      BY <1>6, JoinIs
    <3> QED BY <1>6, <2>2, <3>1
  <2>4. StoredOk(c)'
    BY <1>3, <1>4, <1>7, <2>1, <2>2, <2>3 DEF StoredOk, Stored
  <2> QED BY <2>4 DEF Putting
<1> QED BY <1>8, <1>9

LEMMA ShortStored ==
  ASSUME TypeInv, NEW c \in Client, cpc[c] \in {"put_ack", "put_final"}, Local(c) # Absent,
         ShortGoes(c), Fair(c)', lost'[c] <= 1, ServerStep
  PROVE  Putting(c)'
<1>1. UNCHANGED client
  BY ServersFrame DEF Fair
<1>2. /\ cfile[c] \in File /\ disk \in [File -> Data \cup {Absent}] /\ cpc[c] \in Waiting
  BY PutFacts
<1>3. /\ cfile' = cfile /\ cpc' = cpc /\ Local(c)' = Local(c)
  BY <1>1 DEF client, transfer, Local
<1>4. From = c /\ Here.bytes = Local(c) /\ sq # <<>> /\ Tail(sq) = <<>>
  BY ShortTails DEF ShortGoes, From, Here, Of, Block
<1>5. ServePutSmall
  BY <1>4, WhatServer, ServersFrame DEF PutSmallTimesOut, Fair, ShortGoes
<1>6. /\ sq' = <<>> /\ spc' = "top" /\ Remote(c)' = Local(c) /\ ToClient(c, <<Stored>>)
  BY <1>2, <1>3, <1>4, <1>5 DEF ServePutSmall, Takes, Goto, Remote, ShortGoes, Stored
<1>7. cq'[c] = <<Stored>> /\ cpc'[c] = "put_final"
  BY <1>2, <1>3, <1>6, FirstAnswer DEF ShortGoes
<1>8. StoredOk(c)'
  BY <1>3, <1>6, <1>7 DEF StoredOk, Stored
<1> QED BY <1>8 DEF Putting

\* The server takes a block of a file of which it will not get all.
LEMMA LackServed ==
  ASSUME TypeInv, NEW c \in Client, cpc[c] \in {"put_ack", "put_final"}, Local(c) # Absent,
         LackGoes(c), Fair(c)', lost'[c] <= 1, ServerStep
  PROVE  Putting(c)'
<1>1. UNCHANGED client /\ lost' = lost
  BY ServersFrame DEF Fair
<1>2. rest[c] \in Data /\ cpc[c] \in Waiting /\ sdone \in Nat /\ sneed \in Nat
  BY PutFacts
<1>3. /\ cpc' = cpc /\ ctimer' = ctimer /\ rest' = rest
  BY <1>1 DEF client, transfer
<1> DEFINE b == Here.bytes
<1>4. From = c /\ sq # <<>> /\ Tail(sq) = <<>> /\ b \in Data /\ cq[c] = <<>> /\ Fresh(c)
      /\ Missing(Len(b) + Len(rest[c])) /\ lost[c] > 0 /\ cpc[c] = "put_ack"
  BY OneGoes DEF LackGoes, BlockGoes
<1>5. Len(b) \in Nat /\ Len(rest[c]) \in Nat
  BY <1>2, <1>4, DataIs
<1> HIDE DEF b
<1>6. CASE spc = "put_small"
  <2>1. ServePutSmall
    BY <1>4, <1>6, WhatServer, ServersFrame DEF PutSmallTimesOut, Fair
  <2>2. sq' = <<>> /\ spc' = "top" /\ ToClient(c, <<FullMsg("put_successful")>>)
    BY <1>4, <2>1 DEF ServePutSmall, Takes, Goto
  <2>3. cq'[c] = <<FullMsg("put_successful")>>
    BY <1>2, <1>4, <2>2, FirstAnswer
  <2>4. Len(cq'[c]) = 1
    BY <2>3
  <2>5. LastWord(c)'
    BY <1>1, <1>3, <1>4, <2>2, <2>4 DEF LastWord
  <2> QED BY <2>5 DEF Putting
<1>7. CASE spc = "put_large" /\ sdone + (Len(b) + Len(rest[c])) < sneed
  <2>1. ServePutLarge
    BY <1>4, <1>7, WhatServer, ServersFrame DEF PutLargeTimesOut, Fair
  <2>2. sdone + Len(b) < sneed
    BY <1>2, <1>5, <1>7
  <2>3. /\ sq' = <<>> /\ ToClient(c, <<Ack>>) /\ sdone' = sdone + Len(b) /\ Goto("put_large")
        /\ sneed' = sneed
    BY <1>4, <2>1, <2>2 DEF ServePutLarge, Takes, b
  <2>4. cq'[c] = <<Ack>> /\ spc' = "put_large" /\ stimer' = STimeout
    BY <1>2, <1>4, <2>3, FirstAnswer DEF Goto, InPut
  <2>5. sdone' + Len(rest'[c]) < sneed'
    <3> DEFINE m == Len(b)
               n == Len(rest[c])
    <3>1. m \in Nat /\ n \in Nat /\ sdone \in Nat /\ sneed \in Nat
      BY <1>2, <1>5
    <3>2. sdone' = sdone + m /\ sneed' = sneed /\ Len(rest'[c]) = n
      BY <1>3, <2>3
    <3>3. sdone + (m + n) < sneed
      BY <1>7
    <3> HIDE DEF m, n
    <3> QED BY <3>1, <3>2, <3>3
  <2>6. Missing(Len(rest[c]))'
    BY <2>4, <2>5 DEF Missing
  <2>7. LackAcked(c)'
    BY <1>1, <1>3, <1>4, <2>3, <2>4, <2>6 DEF LackAcked, Fresh
  <2> QED BY <2>7 DEF Putting
<1> QED BY <1>4, <1>6, <1>7 DEF Missing

\* The server takes what belongs to no put.
LEMMA IgnoredServed ==
  ASSUME TypeInv, NEW c \in Client, cpc[c] \in {"put_ack", "put_final"},
         IgnoredOk(c), Fair(c)', lost'[c] <= 1, ServerStep
  PROVE  Putting(c)'
<1>1. UNCHANGED client /\ lost' = lost
  BY ServersFrame DEF Fair
<1>2. sq # <<>> /\ sq \in Seq(Sent) /\ spc = "top" /\ Here.t \in {"size", "block"}
  BY WhatServer, FilesAre, EmptyOrNot DEF IgnoredOk, Here
<1>3. ServeOther \/ ServeEmpty
  BY <1>2, WhatServer DEF ServeGet, ServeGetNoFile, ServePut, ServeDelete, ServeListOrExit
<1>4. cq' = cq /\ spc' \in {"top", "dead"} /\ (sq' = Tail(sq) \/ sq' = <<>>)
  BY <1>2, <1>3 DEF ServeOther, ServeEmpty, Takes, Die
<1>5. \A i \in 1..Len(sq') : sq'[i].d.t \in {"size", "block"}
  <2>1. Len(sq) \in Nat \ {0} /\ Len(Tail(sq)) = Len(sq) - 1
        /\ \A i \in 1..Len(sq)-1 : Tail(sq)[i] = sq[i+1]
    BY <1>2, HeadTailProperties, EmptySeq
  <2>2. CASE sq' = <<>>
    BY <2>2
  <2>3. CASE sq' = Tail(sq)
    BY <2>1, <2>3 DEF IgnoredOk
  <2> QED BY <1>4, <2>2, <2>3
<1>6. IgnoredOk(c)'
  BY <1>1, <1>4, <1>5 DEF IgnoredOk, client
<1> QED BY <1>6 DEF Putting

LEMMA PutServed ==
  ASSUME TypeInv, NEW c \in Client, PutOk(c), Fair(c)', lost'[c] <= 1, ServerStep
  PROVE  PutOk(c)'
<1>1. UNCHANGED client
  BY ServersFrame DEF Fair
<1>2. /\ cpc' = cpc /\ told' = told /\ Local(c)' = Local(c)
  BY <1>1 DEF client, transfer, Local
<1>3. CASE cpc[c] = "prompt" /\ told[c] # "put_successful"
  BY <1>2, <1>3 DEF PutOk
<1>4. CASE cpc[c] = "prompt" /\ spc = "top" /\ sq = <<>> /\ Remote(c) = Local(c)
  BY <1>4, WhatServer
<1>5. CASE cpc[c] \in {"put_ack", "put_final"} /\ Local(c) # Absent /\ Putting(c)
  <2>1. ASSUME sq = <<>>, stimer > 0 \/ spc = "top" PROVE FALSE
    <3>1. spc # "top"
      BY <2>1, WhatServer
    <3>2. ~ServerTimesOut("put_size") /\ ~ServerTimesOut("put_small") /\ ~ServerTimesOut("put_large")
      BY <2>1, <3>1, ServersFrame DEF Fair
    <3>3. ~Takes("get_ack") /\ ~Takes("put_small") /\ ~Takes("put_large")
      BY <2>1 DEF Takes
    <3>4. ~ServePutSize /\ ~ServePutNoFile
      BY <2>1 DEF ServePutSize, ServePutNoFile
    <3>5. /\ ~ServeAck /\ ~ServePutSmall /\ ~ServePutLarge
          /\ ~PutSizeTimesOut /\ ~PutSmallTimesOut /\ ~PutLargeTimesOut
      BY <3>2, <3>3 DEF ServeAck, PutSizeTimesOut, ServePutSmall, PutSmallTimesOut, ServePutLarge,
         PutLargeTimesOut
    <3>6. spc \in InPut \cup {"top", "get_ack", "dead"}
      BY TypeParts DEF ServerTypes
    <3> QED BY <3>1, <3>4, <3>5, <3>6, WhatServer DEF InPut
  <2>2. stimer \in 0..STimeout /\ ctimer[c] \in 0..CTimeout
    BY <1>5, PutFacts
  <2>3. ~AckBack(c) /\ ~LackAcked(c)
    BY <2>1 DEF AckBack, LackAcked, STimeout
  <2>4. ~AckLost(c) /\ ~LackWaits(c)
    BY <2>1, <2>2 DEF AckLost, LackWaits, Nothing, Empty, Later
  <2>5. ~StoredOk(c) /\ ~LastWord(c)
    BY <2>1 DEF StoredOk, LastWord
  <2>6. Putting(c)'
    BY <1>5, <2>3, <2>4, <2>5, OpensServed, BlockStored, ShortStored, LackServed, IgnoredServed
       DEF Putting
  <2> QED BY <1>2, <1>5, <2>6 DEF PutOk
<1> QED BY <1>3, <1>4, <1>5 DEF PutOk

\* The client goes on: with the next block, or to wait for the answer.
LEMMA NextGoes ==
  ASSUME TypeInv, NEW c \in Client, cpc[c] = "put_ack", Local(c) # Absent, NextBlock(c),
         sq = <<>>, spc # "dead", cq'[c] = <<>>, rest[c] # <<>>
  PROVE  /\ cpc'[c] = "put_ack" /\ BlockGoes(c)'
         /\ sq'[1].d.bytes # <<>> /\ sq'[1].d.bytes \o rest'[c] = rest[c]
         /\ Len(sq'[1].d.bytes) + Len(rest'[c]) = Len(rest[c])
<1>1. rest[c] \in Data
  BY PutFacts
<1>2. /\ cpc \in [Client -> Waiting \cup {"prompt", "gone", "dead"}]
      /\ ctimer \in [Client -> 0..CTimeout] /\ rest \in [Client -> Data]
  BY TypeParts DEF ClientTypes
<1> DEFINE b == FirstBlock(rest[c])
<1>3. /\ ToServer(c, <<Block(b)>>) /\ rest'[c] = AfterBlock(rest[c])
      /\ cpc'[c] = "put_ack" /\ ctimer'[c] = CTimeout
  BY <1>2 DEF NextBlock, WaitIn
<1>4. sq' = <<Of(c, Block(b))>>
  BY <1>3, FirstSent
<1>5. Len(rest[c]) > 0
  <2>1. Len(rest[c]) \in Nat /\ Len(rest[c]) # 0
    BY <1>1, JoinIs
  <2> QED BY <2>1
<1>6. b \in Data /\ rest'[c] \in Data /\ b \o rest'[c] = rest[c] /\ Len(b) > 0
  BY <1>1, <1>3, <1>5, BlocksAre
<1> HIDE DEF b
<1>7. b # <<>> /\ Len(b \o rest'[c]) = Len(b) + Len(rest'[c])
  <2>1. Len(b \o rest'[c]) = Len(b) + Len(rest'[c])
    BY <1>6, DataIs
  <2>2. b # <<>>
    BY <1>6, JoinIs
  <2> QED BY <2>1, <2>2
<1>8. Len(sq') = 1 /\ sq'[1].from = c /\ sq'[1].d.t = "block" /\ sq'[1].d.bytes = b
  BY <1>4 DEF Of, Block
<1> QED BY <1>3, <1>6, <1>7, <1>8 DEF BlockGoes, Fresh

LEMMA LastGoes ==
  ASSUME TypeInv, NEW c \in Client, NextBlock(c), rest[c] = <<>>
  PROVE  cpc'[c] = "put_final" /\ ctimer'[c] = CTimeout /\ sq' = sq /\ rest' = rest
<1>1. /\ cpc \in [Client -> Waiting \cup {"prompt", "gone", "dead"}]
      /\ ctimer \in [Client -> 0..CTimeout]
  BY TypeParts DEF ClientTypes
<1> QED BY <1>1 DEF NextBlock, WaitIn

\* What c does while it puts a file: it takes what is the first in its queue,
\* or, when there is nothing, its time is over.
LEMMA PutMoves ==
  ASSUME TypeInv, NEW c \in Client, cpc[c] \in {"put_ack", "put_final"}, Local(c) # Absent,
         Fair(c)', lost'[c] <= 1, ClientStep(c)
  PROVE  /\ UNCHANGED <<server, lost, cfile>>
         /\ Local(c)' = Local(c) /\ Remote(c)' = Remote(c) /\ ~(cq[c] = <<>> /\ Fresh(c))
         /\ \/ cpc[c] = "put_ack" /\ NextBlock(c)
               /\ \/ cq[c] # <<>> /\ cq'[c] = Tail(cq[c])
                  \/ cq[c] = <<>> /\ ctimer[c] = 0 /\ cq'[c] = <<>>
            \/ /\ cpc[c] = "put_final" /\ cpc'[c] = "prompt" /\ sq' = sq
               /\ \/ cq[c] # <<>> /\ told'[c] = Got(c).t
                  \/ cq[c] = <<>> /\ told'[c] = "timeout"
<1>1. UNCHANGED <<server, lost, cfile>>
  BY ClientsFrame DEF Fair
<1>2. /\ cpc \in [Client -> Waiting \cup {"prompt", "gone", "dead"}] /\ told \in [Client -> Told]
      /\ cq \in [Client -> Seq(ToClients)]
  BY TypeParts DEF ClientTypes, QueuesOk
<1>3. Remote(c)' = Remote(c)
  BY <1>1 DEF Remote, server
<1>4. \/ cpc[c] = "put_ack" /\ (PutAck(c) \/ PutAckTimesOut(c))
      \/ cpc[c] = "put_final" /\ (Replied(c) \/ ReplyTimesOut(c))
  BY WhatClient
<1>5. dir' = dir
  BY <1>4 DEF PutAck, PutAckTimesOut, Replied, ReplyTimesOut
<1>6. Local(c)' = Local(c)
  BY <1>1, <1>5 DEF Local
<1>7. CASE PutAck(c)
  BY <1>1, <1>2, <1>3, <1>6, <1>7 DEF PutAck, Receives, Took
<1>8. CASE PutAckTimesOut(c)
  <2>1. /\ TimesOut(c, "put_ack") /\ cpc[c] = "put_ack" /\ NextBlock(c) /\ cq' = cq
    BY <1>8 DEF PutAckTimesOut, TimesOut
  <2>2. cq[c] = <<>> /\ ctimer[c] = 0
    BY <2>1, ClientsFrame DEF Fair
  <2> QED BY <1>1, <1>3, <1>6, <2>1, <2>2 DEF Fresh, CTimeout
<1>9. CASE Replied(c) /\ cpc[c] = "put_final"
  BY <1>1, <1>2, <1>3, <1>6, <1>9 DEF Replied, Receives, Tells
<1>10. CASE ReplyTimesOut(c) /\ cpc[c] = "put_final"
  <2>1. \E state : TimesOut(c, state)
    BY <1>10 DEF ReplyTimesOut
  <2>2. cq[c] = <<>> /\ ctimer[c] = 0
    BY <2>1, ClientsFrame DEF Fair
  <2> QED BY <1>1, <1>2, <1>3, <1>6, <1>10, <2>2 DEF ReplyTimesOut, Tells, Fresh, CTimeout
<1> QED BY <1>4, <1>7, <1>8, <1>9, <1>10

\* On with the file, whether the ACK came or was lost.
LEMMA AckTaken ==
  ASSUME TypeInv, NEW c \in Client, cpc[c] \in {"put_ack", "put_final"}, Local(c) # Absent,
         AckBack(c) \/ AckLost(c), Fair(c)', lost'[c] <= 1, ClientStep(c)
  PROVE  DataGoes(c)'
<1>1. /\ UNCHANGED <<server, lost, cfile>> /\ Local(c)' = Local(c) /\ Remote(c)' = Remote(c)
  BY PutMoves
<1>2. /\ Written(c) /\ cpc[c] = "put_ack" /\ sq = <<>> /\ spc = "put_large" /\ rest[c] # <<>>
      /\ Remote(c) \o rest[c] = Local(c) /\ (lost[c] = 0 => stimer = STimeout)
  BY DEF AckBack, AckLost, Written, Nothing, Empty
<1>3. NextBlock(c) /\ cq'[c] = <<>>
  <2>1. cpc[c] # "put_final"
    BY <1>2
  <2>2. CASE AckBack(c)
    <3>1. cq[c] # <<>> /\ Tail(cq[c]) = <<>>
      BY <2>2, ShortTails DEF AckBack
    <3> QED BY <2>1, <3>1, PutMoves
  <2>3. CASE AckLost(c)
    BY <2>1, <2>3, PutMoves DEF AckLost, Nothing, Empty
  <2> QED BY <2>2, <2>3
<1>4. /\ cpc'[c] = "put_ack" /\ BlockGoes(c)' /\ sq'[1].d.bytes # <<>>
      /\ sq'[1].d.bytes \o rest'[c] = rest[c]
  BY <1>2, <1>3, NextGoes
<1>5. Remote(c)' \o (sq'[1].d.bytes \o rest'[c]) = Local(c)'
  BY <1>1, <1>2, <1>4
<1>6. Written(c)'
  BY <1>1, <1>2, <1>4 DEF Written, server
<1> QED BY <1>1, <1>2, <1>4, <1>5, <1>6 DEF DataGoes, server

LEMMA LackTaken ==
  ASSUME TypeInv, NEW c \in Client, cpc[c] \in {"put_ack", "put_final"}, Local(c) # Absent,
         LackAcked(c) \/ (LackWaits(c) /\ cpc[c] = "put_ack"), Fair(c)', lost'[c] <= 1, ClientStep(c)
  PROVE  Putting(c)' /\ cpc'[c] \in {"put_ack", "put_final"}
<1>1. UNCHANGED <<server, lost>>
  BY PutMoves
<1>2. /\ cpc[c] = "put_ack" /\ sq = <<>> /\ Missing(Len(rest[c])) /\ lost[c] > 0
      /\ spc \in {"put_small", "put_large"}
  BY DEF LackAcked, LackWaits, Nothing, Empty, Missing
<1>3. NextBlock(c) /\ cq'[c] = <<>>
  <2>1. cpc[c] # "put_final"
    BY <1>2
  <2>2. CASE LackAcked(c)
    <3>1. cq[c] # <<>> /\ Tail(cq[c]) = <<>>
      BY <2>2, ShortTails DEF LackAcked
    <3> QED BY <2>1, <3>1, PutMoves
  <2>3. CASE LackWaits(c)
    BY <2>1, <2>3, PutMoves DEF LackWaits, Nothing, Empty
  <2> QED BY <2>2, <2>3
<1>4. stimer >= 3
  <2>1. CASE LackAcked(c)
    BY <2>1 DEF LackAcked, STimeout
  <2>2. CASE LackWaits(c)
    <3>1. cq[c] = <<>> /\ cpc[c] # "put_final"
      BY <1>2, <2>2 DEF LackWaits, Nothing, Empty
    <3>2. ctimer[c] = 0
      BY <3>1, PutMoves
    <3> QED BY <1>2, <2>2, <3>2 DEF LackWaits, Later
  <2> QED BY <2>1, <2>2
<1>5. CASE rest[c] # <<>>
  <2>1. /\ cpc'[c] = "put_ack" /\ BlockGoes(c)'
        /\ Len(sq'[1].d.bytes) + Len(rest'[c]) = Len(rest[c])
    BY <1>2, <1>3, <1>5, NextGoes
  <2>2. Missing(Len(sq[1].d.bytes) + Len(rest[c]))'
    BY <1>1, <1>2, <2>1 DEF Missing, server
  <2>3. LackGoes(c)'
    BY <1>1, <1>2, <2>1, <2>2 DEF LackGoes
  <2> QED BY <2>1, <2>3 DEF Putting
<1>6. CASE rest[c] = <<>>
  <2>1. cpc'[c] = "put_final" /\ ctimer'[c] = CTimeout /\ sq' = <<>>
    BY <1>2, <1>3, <1>6, LastGoes
  <2>2. Missing(0)' /\ Later(c, 1)'
    <3>1. Len(rest[c]) = 0
      BY <1>6
    <3>2. Missing(0)
      BY <1>2, <3>1
    <3> QED BY <1>1, <1>4, <2>1, <3>2 DEF Missing, Later, CTimeout, server
  <2>3. LackWaits(c)'
    BY <1>1, <1>2, <1>3, <2>1, <2>2 DEF LackWaits, Nothing, Empty
  <2> QED BY <2>1, <2>3 DEF Putting
<1> QED BY <1>5, <1>6

\* The answer behind the ACK, which ends the waiting; or an answer in place of
\* an ACK, after which the server ignores the rest.
LEMMA StoredTaken ==
  ASSUME TypeInv, NEW c \in Client, cpc[c] \in {"put_ack", "put_final"}, Local(c) # Absent,
         StoredOk(c), Fair(c)', lost'[c] <= 1, ClientStep(c)
  PROVE  PutOk(c)'
<1>1. UNCHANGED <<server, lost, cfile>> /\ Local(c)' = Local(c) /\ Remote(c)' = Remote(c)
  BY PutMoves
<1>2. spc = "top" /\ sq = <<>> /\ Remote(c) = Local(c)
  BY DEF StoredOk
<1>3. CASE cpc[c] = "put_ack" /\ cq[c] = <<Ack, Stored>> /\ rest[c] = <<>>
  <2>1. cq[c] # <<>> /\ Tail(cq[c]) = <<Stored>> /\ cpc[c] # "put_final"
    BY <1>3, ShortTails
  <2>2. NextBlock(c) /\ cq'[c] = <<Stored>>
    BY <2>1, PutMoves
  <2>3. cpc'[c] = "put_final" /\ sq' = sq
    BY <1>3, <2>2, LastGoes
  <2>4. StoredOk(c)'
    BY <1>1, <1>2, <2>2, <2>3 DEF StoredOk, Stored, server
  <2> QED BY <1>1, <2>3, <2>4 DEF PutOk, Putting
<1>4. CASE cpc[c] = "put_final" /\ cq[c] = <<Stored>>
  <2>1. cpc'[c] = "prompt" /\ sq' = sq
    BY <1>4, PutMoves
  <2> QED BY <1>1, <1>2, <2>1 DEF PutOk, server
<1> QED BY <1>3, <1>4 DEF StoredOk

LEMMA RestIgnored ==
  ASSUME TypeInv, NEW c \in Client, cpc[c] \in {"put_ack", "put_final"}, Local(c) # Absent,
         LastWord(c) \/ (IgnoredOk(c) /\ cpc[c] = "put_ack"), Fair(c)', lost'[c] <= 1, ClientStep(c)
  PROVE  IgnoredOk(c)'
<1>1. UNCHANGED <<server, lost>>
  BY PutMoves
<1>2. /\ lost[c] > 0 /\ cpc[c] = "put_ack" /\ spc \in {"top", "dead"} /\ sq \in Seq(Sent)
      /\ \A i \in 1..Len(sq) : sq[i].d.t \in {"size", "block"}
  BY PutFacts DEF LastWord, IgnoredOk
<1>3. NextBlock(c) /\ cq'[c] = <<>>
  <2>1. cpc[c] # "put_final"
    BY <1>2
  <2>2. CASE LastWord(c)
    <3>1. cq[c] # <<>> /\ Tail(cq[c]) = <<>>
      BY <2>2, PutFacts, OfOne DEF LastWord
    <3> QED BY <2>1, <3>1, PutMoves
  <2>3. CASE IgnoredOk(c)
    BY <2>1, <2>3, PutMoves DEF IgnoredOk
  <2> QED BY <2>2, <2>3
<1>4. CASE rest[c] = <<>>
  <2>1. cpc'[c] = "put_final" /\ sq' = sq
    BY <1>3, <1>4, LastGoes
  <2> QED BY <1>1, <1>2, <1>3, <2>1 DEF IgnoredOk, server
<1>5. CASE rest[c] # <<>>
  <2> DEFINE b == Block(FirstBlock(rest[c]))
             more == [i \in DOMAIN <<b>> |-> [from |-> c, d |-> <<b>>[i]]]
  <2>1. cpc'[c] = "put_ack" /\ ToServer(c, <<b>>)
    <3>1. cpc \in [Client -> Waiting \cup {"prompt", "gone", "dead"}]
      BY TypeParts DEF ClientTypes
    <3> QED BY <1>3, <1>5, <3>1 DEF NextBlock, WaitIn
  <2>2. sq' = sq \/ sq' = sq \o more
    BY <2>1 DEF ToServer
  <2>3. b.t = "block"
    BY DEF Block
  <2> HIDE DEF b
  <2>4. more = <<[from |-> c, d |-> b]>>
    OBVIOUS
  <2> HIDE DEF more
  <2>5. \A i \in 1..Len(sq') : sq'[i].d.t \in {"size", "block"}
    <3> DEFINE e == [from |-> c, d |-> b]
    <3>1. e.d.t = "block"
      BY <2>3
    <3> HIDE DEF e
    <3> DEFINE T == Sent \cup {e}
    <3>2. sq \in Seq(T) /\ <<e>> \in Seq(T) /\ Len(<<e>>) = 1 /\ <<e>>[1] = e
      <4>1. Sent \subseteq T /\ e \in T
        OBVIOUS
      <4> HIDE DEF T
      <4> QED BY <1>2, <4>1
    <3> HIDE DEF T
    <3>3. /\ Len(sq \o <<e>>) = Len(sq) + 1 /\ Len(sq) \in Nat
          /\ \A i \in 1..Len(sq)+1 : (sq \o <<e>>)[i] = IF i <= Len(sq) THEN sq[i] ELSE <<e>>[i - Len(sq)]
      BY <3>2, ConcatProperties
    <3>4. \A i \in 1..Len(sq)+1 : (sq \o <<e>>)[i] = IF i <= Len(sq) THEN sq[i] ELSE e
      BY <3>2, <3>3
    <3>5. CASE sq' = sq
      BY <1>2, <3>5
    <3>6. CASE sq' = sq \o <<e>>
      BY <1>2, <3>1, <3>3, <3>4, <3>6
    <3>7. more = <<e>>
      BY <2>4 DEF e
    <3> QED BY <2>2, <3>5, <3>6, <3>7
  <2> QED BY <1>1, <1>2, <1>3, <2>1, <2>5 DEF IgnoredOk, server
<1> QED BY <1>4, <1>5

LEMMA PutAnswered ==
  ASSUME TypeInv, NEW c \in Client, PutOk(c), Fair(c)', lost'[c] <= 1, ClientStep(c)
  PROVE  PutOk(c)'
<1>1. cpc[c] \in {"put_ack", "put_final"} /\ Local(c) # Absent /\ Putting(c)
  BY WhatClient DEF PutOk, Waiting
<1>2. Local(c)' = Local(c) /\ ~(cq[c] = <<>> /\ Fresh(c))
  BY <1>1, PutMoves
<1>3. ~OpensOk(c) /\ ~DataGoes(c) /\ ~ShortGoes(c) /\ ~LackGoes(c)
  BY <1>2 DEF OpensOk, DataGoes, ShortGoes, LackGoes, BlockGoes
<1>4. CASE AckBack(c) \/ AckLost(c)
  <2>1. DataGoes(c)'
    BY <1>1, <1>4, AckTaken
  <2>2. cpc'[c] = "put_ack"
    BY <2>1 DEF DataGoes, Written
  <2> QED BY <1>1, <1>2, <2>1, <2>2 DEF PutOk, Putting
<1>5. CASE StoredOk(c)
  BY <1>1, <1>5, StoredTaken
<1>6. CASE LackAcked(c) \/ (LackWaits(c) /\ cpc[c] = "put_ack")
  BY <1>1, <1>2, <1>6, LackTaken DEF PutOk
<1>7. CASE LastWord(c) \/ (IgnoredOk(c) /\ cpc[c] = "put_ack")
  <2>1. IgnoredOk(c)'
    BY <1>1, <1>7, RestIgnored
  <2>2. cpc'[c] \in {"put_ack", "put_final"}
    BY <2>1 DEF IgnoredOk
  <2> QED BY <1>1, <1>2, <2>1, <2>2 DEF PutOk, Putting
<1>8. CASE (LackWaits(c) \/ IgnoredOk(c)) /\ cpc[c] = "put_final"
  <2>1. cq[c] = <<>>
    BY <1>8 DEF LackWaits, Nothing, Empty, IgnoredOk
  <2>2. cpc'[c] = "prompt" /\ told'[c] = "timeout"
    BY <1>1, <1>8, <2>1, PutMoves
  <2> QED BY <2>2 DEF PutOk
<1> QED BY <1>1, <1>3, <1>4, <1>5, <1>6, <1>7, <1>8 DEF Putting

\* A datagram of a put is lost.
LEMMA OpensLoses ==
  ASSUME TypeInv, NEW c \in Client, cpc[c] \in {"put_ack", "put_final"}, OpensOk(c),
         Fair(c)', lost'[c] <= 1, Lose
  PROVE  Putting(c)'
<1>1. /\ UNCHANGED <<client, server>> /\ lost'[c] > 0 /\ lost[c] = 0
      /\ \/ cq'[c] = cq[c] /\ \E i \in DOMAIN sq : sq' = Drop(sq, i)
         \/ sq' = sq /\ \E i \in DOMAIN cq[c] : cq'[c] = Drop(cq[c], i)
         \/ sq' = sq /\ cq'[c] = cq[c]
  BY LossIs DEF Fair
<1>2. /\ cpc' = cpc /\ spc' = spc /\ cfile' = cfile /\ ctimer' = ctimer /\ sfile' = sfile
      /\ rest' = rest /\ Local(c)' = Local(c) /\ Fresh(c)' = Fresh(c)
      /\ PutMsg(c)' = PutMsg(c) /\ SizeOf(c)' = SizeOf(c) /\ FirstOf(c)' = FirstOf(c)
  BY <1>1 DEF Local, Fresh, PutMsg, SizeOf, FirstOf, client, transfer, server
<1>3. SizeOf(c).d.t = "size" /\ FirstOf(c).d.t = "block"
  BY DEF SizeOf, FirstOf, Of, SizeMsg, Block
<1>4. cq'[c] = <<>> /\ (sq' = sq \/ \E i \in DOMAIN sq : sq' = Drop(sq, i))
  BY <1>1 DEF OpensOk
<1> DEFINE P == PutMsg(c)
           S == SizeOf(c)
           B == FirstOf(c)
<1>5. \/ spc = "top" /\ sq = <<P, S, B>>
      \/ spc = "put_size" /\ sfile = cfile[c] /\ sq = <<S, B>>
  BY <1>1 DEF OpensOk
<1>6. /\ Fresh(c)' /\ rest'[c] = AfterBlock(Local(c)')
      /\ cpc'[c] = IF IsShort(Len(Local(c)')) THEN "put_final" ELSE "put_ack"
      /\ P' = P /\ S' = S /\ B' = B
  BY <1>2 DEF OpensOk
<1>7. S.d.t = "size" /\ B.d.t = "block"
  BY <1>3
<1> HIDE DEF P, S, B
<1>8. CASE spc = "top" /\ sq = <<P, S, B>>
  <2>1. sq' = sq \/ sq' = <<S, B>> \/ sq' = <<P, B>> \/ sq' = <<P, S>>
    BY <1>4, <1>8, Drops
  <2>2. CASE sq' = <<S, B>>
    <3>1. \A i \in 1..Len(sq') : sq'[i].d.t \in {"size", "block"}
      <4>1. Len(sq') = 2 /\ sq'[1] = S /\ sq'[2] = B
        BY <2>2
      <4>2. \A i \in 1..2 : i = 1 \/ i = 2
        OBVIOUS
      <4> QED BY <1>7, <4>1, <4>2
    <3>2. IgnoredOk(c)'
      BY <1>1, <1>2, <1>4, <1>8, <3>1 DEF IgnoredOk
    <3> QED BY <3>2 DEF Putting
  <2>3. CASE sq' = <<P, B>> \/ sq' = <<P, S>> \/ sq' = sq
    <3>1. \/ sq' = <<P', S', B'>>
          \/ sq' \in {<<P', S'>>, <<P', B'>>}
      BY <1>6, <1>8, <2>3
    <3>2. OpensOk(c)'
      BY <1>1, <1>2, <1>4, <1>6, <1>8, <3>1 DEF OpensOk, P, S, B
    <3> QED BY <3>2 DEF Putting
  <2> QED BY <2>1, <2>2, <2>3
<1>9. CASE spc = "put_size" /\ sfile = cfile[c] /\ sq = <<S, B>>
  <2>1. sq' = sq \/ sq' = <<S>> \/ sq' = <<B>>
    BY <1>4, <1>9, Drops
  <2>2. sq' = <<S', B'>> \/ sq' \in {<<S'>>, <<B'>>}
    BY <1>6, <1>9, <2>1
  <2>3. OpensOk(c)'
    BY <1>1, <1>2, <1>4, <1>6, <1>9, <2>2 DEF OpensOk, P, S, B
  <2> QED BY <2>3 DEF Putting
<1> QED BY <1>5, <1>8, <1>9

LEMMA BlockLoses ==
  ASSUME TypeInv, NEW c \in Client, cpc[c] \in {"put_ack", "put_final"}, Local(c) # Absent,
         DataGoes(c) \/ ShortGoes(c), Fair(c)', lost'[c] <= 1, Lose
  PROVE  Putting(c)'
<1>1. /\ UNCHANGED <<client, server>> /\ lost'[c] > 0 /\ lost[c] = 0
      /\ \/ cq'[c] = cq[c] /\ \E i \in DOMAIN sq : sq' = Drop(sq, i)
         \/ sq' = sq /\ \E i \in DOMAIN cq[c] : cq'[c] = Drop(cq[c], i)
         \/ sq' = sq /\ cq'[c] = cq[c]
  BY LossIs DEF Fair
<1>2. /\ cpc' = cpc /\ spc' = spc /\ cfile' = cfile /\ ctimer' = ctimer /\ sfile' = sfile
      /\ stimer' = stimer /\ sdone' = sdone /\ sneed' = sneed
      /\ rest' = rest /\ Local(c)' = Local(c) /\ Fresh(c)' = Fresh(c) /\ Remote(c)' = Remote(c)
      /\ (Written(c)' <=> Written(c))
  BY <1>1 DEF Local, Remote, Fresh, Written, client, transfer, server
<1>3. Fresh(c) /\ stimer = STimeout /\ cq[c] = <<>>
  BY <1>1 DEF DataGoes, ShortGoes, BlockGoes
<1>4. cq'[c] = <<>> /\ (sq' = sq \/ \E i \in DOMAIN sq : sq' = Drop(sq, i))
  BY <1>1, <1>3
<1>5. Later(c, 3)' /\ Later(c, 1)'
  BY <1>2, <1>3 DEF Later, Fresh, STimeout, CTimeout
<1>6. CASE DataGoes(c)
  <2>1. sq = <<sq[1]>>
    BY <1>6, OneGoes DEF DataGoes
  <2>2. sq' = sq \/ sq' = <<>>
    BY <1>4, <2>1, Drops
  <2>3. CASE sq' = sq
    <3>1. DataGoes(c)'
      BY <1>1, <1>2, <1>4, <1>6, <2>3 DEF DataGoes, BlockGoes
    <3> QED BY <3>1 DEF Putting
  <2>4. CASE sq' = <<>>
    <3> DEFINE b == sq[1].d.bytes
    <3>1. /\ b \in Data /\ b # <<>> /\ Remote(c) \o (b \o rest[c]) = Local(c)
          /\ rest[c] \in Data /\ Remote(c) \in Data
          /\ spc = "put_large" /\ cpc[c] = "put_ack" /\ sdone = Len(Remote(c))
          /\ sneed = Len(Local(c))
      BY <1>6, OneGoes, PutFacts DEF DataGoes, Written
    <3> HIDE DEF b
    <3>2. sdone + Len(rest[c]) < sneed
      <4>1. b \o rest[c] \in Data /\ Len(b \o rest[c]) = Len(b) + Len(rest[c])
        BY <3>1, DataIs
      <4>2. Len(Local(c)) = Len(Remote(c)) + Len(b \o rest[c])
        BY <3>1, <4>1, DataIs
      <4>3. Len(b) \in Nat /\ Len(b) # 0 /\ Len(rest[c]) \in Nat /\ Len(Remote(c)) \in Nat
        BY <3>1, JoinIs
      <4> QED BY <3>1, <4>1, <4>2, <4>3
    <3>3. Missing(Len(rest[c]))'
      BY <1>2, <3>1, <3>2 DEF Missing
    <3>4. LackWaits(c)'
      BY <1>1, <1>2, <1>4, <1>5, <2>4, <3>1, <3>3 DEF LackWaits, Nothing, Empty
    <3> QED BY <3>4 DEF Putting
  <2> QED BY <2>2, <2>3, <2>4
<1>7. CASE ShortGoes(c)
  <2>1. sq' = sq \/ sq' = <<>>
    BY <1>4, <1>7, Drops DEF ShortGoes
  <2>2. CASE sq' = sq
    <3>1. sq' = <<Of(c, Block(Local(c)'))>>
      BY <1>2, <1>7, <2>2 DEF ShortGoes
    <3>2. ShortGoes(c)'
      BY <1>2, <1>4, <1>7, <3>1 DEF ShortGoes
    <3> QED BY <3>2 DEF Putting
  <2>3. CASE sq' = <<>>
    <3>1. spc = "put_small" /\ cpc[c] = "put_final"
      BY <1>7 DEF ShortGoes
    <3>2. LackWaits(c)'
      BY <1>1, <1>2, <1>4, <1>5, <2>3, <3>1 DEF LackWaits, Nothing, Empty, Missing
    <3> QED BY <3>2 DEF Putting
  <2> QED BY <2>1, <2>2, <2>3
<1> QED BY <1>6, <1>7

LEMMA AnswerLoses ==
  ASSUME TypeInv, NEW c \in Client, cpc[c] \in {"put_ack", "put_final"},
         AckBack(c) \/ StoredOk(c), Fair(c)', lost'[c] <= 1, Lose
  PROVE  Putting(c)'
<1>1. /\ UNCHANGED <<client, server>> /\ lost'[c] > 0 /\ lost[c] = 0
      /\ \/ cq'[c] = cq[c] /\ \E i \in DOMAIN sq : sq' = Drop(sq, i)
         \/ sq' = sq /\ \E i \in DOMAIN cq[c] : cq'[c] = Drop(cq[c], i)
         \/ sq' = sq /\ cq'[c] = cq[c]
  BY LossIs DEF Fair
<1>2. /\ cpc' = cpc /\ spc' = spc /\ cfile' = cfile /\ ctimer' = ctimer /\ stimer' = stimer
      /\ rest' = rest /\ Local(c)' = Local(c) /\ Fresh(c)' = Fresh(c) /\ Remote(c)' = Remote(c)
      /\ (Written(c)' <=> Written(c))
  BY <1>1 DEF Local, Remote, Fresh, Written, client, transfer, server
<1>3. sq = <<>>
  BY DEF AckBack, StoredOk
<1>4. sq' = <<>> /\ (cq'[c] = cq[c] \/ \E i \in DOMAIN cq[c] : cq'[c] = Drop(cq[c], i))
  BY <1>1, <1>3
<1>5. CASE AckBack(c)
  <2>1. cq'[c] = cq[c] \/ cq'[c] = <<>>
    BY <1>4, <1>5, Drops DEF AckBack
  <2>2. CASE cq'[c] = cq[c]
    BY <1>2, <1>4, <1>5, <2>2 DEF Putting, AckBack
  <2>3. CASE cq'[c] = <<>>
    <3>1. Later(c, 3)'
      BY <1>2, <1>5 DEF AckBack, Later, Fresh, STimeout, CTimeout
    <3>2. AckLost(c)'
      BY <1>1, <1>2, <1>4, <1>5, <2>3, <3>1 DEF AckBack, AckLost, Nothing, Empty
    <3> QED BY <3>2 DEF Putting
  <2> QED BY <2>1, <2>2, <2>3
<1>6. CASE StoredOk(c)
  <2>0. spc = "top" /\ Remote(c) = Local(c)
    BY <1>6 DEF StoredOk
  <2>1. CASE cq'[c] = cq[c]
    <3>1. StoredOk(c)'
      BY <1>2, <1>4, <1>6, <2>1 DEF StoredOk, Stored
    <3> QED BY <3>1 DEF Putting
  <2>2. CASE cpc[c] = "put_ack" /\ cq[c] = <<Ack, Stored>> /\ \E i \in DOMAIN cq[c] : cq'[c] = Drop(cq[c], i)
    <3>1. cq'[c] = <<Ack>> \/ cq'[c] = <<Stored>>
      BY <2>2, Drops
    <3>2. Len(cq'[c]) = 1
      BY <3>1
    <3>3. LastWord(c)'
      BY <1>1, <1>2, <1>4, <2>0, <2>2, <3>2 DEF LastWord
    <3> QED BY <3>3 DEF Putting
  <2>3. CASE cpc[c] = "put_final" /\ cq[c] = <<Stored>> /\ \E i \in DOMAIN cq[c] : cq'[c] = Drop(cq[c], i)
    <3>1. cq'[c] = <<>>
      BY <2>3, Drops
    <3>2. IgnoredOk(c)'
      BY <1>1, <1>2, <1>4, <2>0, <2>3, <3>1 DEF IgnoredOk
    <3> QED BY <3>2 DEF Putting
  <2> QED BY <1>4, <1>6, <2>1, <2>2, <2>3 DEF StoredOk
<1> QED BY <1>5, <1>6

LEMMA PutLoses ==
  ASSUME TypeInv, NEW c \in Client, PutOk(c), Fair(c)', lost'[c] <= 1, Lose
  PROVE  PutOk(c)'
<1>1. /\ UNCHANGED <<client, server>> /\ lost[c] = 0
      /\ \/ cq'[c] = cq[c] /\ \E i \in DOMAIN sq : sq' = Drop(sq, i)
         \/ sq' = sq /\ \E i \in DOMAIN cq[c] : cq'[c] = Drop(cq[c], i)
         \/ sq' = sq /\ cq'[c] = cq[c]
  BY LossIs DEF Fair
<1>2. /\ cpc' = cpc /\ told' = told /\ spc' = spc /\ Local(c)' = Local(c) /\ Remote(c)' = Remote(c)
  BY <1>1 DEF Local, Remote, client, transfer, server
<1>3. CASE cpc[c] = "prompt" /\ told[c] # "put_successful"
  BY <1>2, <1>3 DEF PutOk
<1>4. CASE cpc[c] = "prompt" /\ spc = "top" /\ sq = <<>> /\ Remote(c) = Local(c)
  <2>1. sq' = <<>>
    BY <1>1, <1>4
  <2> QED BY <1>2, <1>4, <2>1 DEF PutOk
<1>5. CASE cpc[c] \in {"put_ack", "put_final"} /\ Local(c) # Absent /\ Putting(c)
  <2>1. /\ ~AckLost(c) /\ ~LackGoes(c) /\ ~LackAcked(c) /\ ~LackWaits(c) /\ ~LastWord(c)
        /\ ~IgnoredOk(c)
    BY <1>1 DEF AckLost, LackGoes, LackAcked, LackWaits, LastWord, IgnoredOk, Nothing
  <2>2. Putting(c)'
    BY <1>5, <2>1, OpensLoses, BlockLoses, AnswerLoses DEF Putting
  <2> QED BY <1>2, <1>5, <2>2 DEF PutOk
<1> QED BY <1>3, <1>4, <1>5 DEF PutOk

\* The two timers run down together.
LEMMA PutTicks ==
  ASSUME TypeInv, NEW c \in Client, PutOk(c), Fair(c)', lost'[c] <= 1, Tick
  PROVE  PutOk(c)'
<1>1. /\ UNCHANGED <<cpc, transfer, dir, told, spc, sfile, sneed, sdone, disk, sq, cq, lost>>
      /\ sq = <<>> /\ (cpc[c] \in Waiting => cq[c] = <<>>)
      /\ cpc[c] \in Waiting => ctimer'[c] = ctimer[c] - 1
      /\ spc \in InPut => stimer' = stimer - 1
  BY TickIs DEF Fair
<1>2. Local(c)' = Local(c) /\ Remote(c)' = Remote(c) /\ (Written(c)' <=> Written(c))
  BY <1>1 DEF Local, Remote, Written, transfer
<1>3. CASE cpc[c] = "prompt"
  BY <1>1, <1>2, <1>3 DEF PutOk
<1>4. CASE cpc[c] \in {"put_ack", "put_final"} /\ Local(c) # Absent /\ Putting(c)
  <2>1. cq[c] = <<>> /\ ctimer'[c] = ctimer[c] - 1
    BY <1>1, <1>4 DEF Waiting
  <2>2. stimer \in 0..STimeout /\ ctimer[c] \in 0..CTimeout
    BY <1>4, PutFacts
  <2>3. ~DataGoes(c) /\ ~LackGoes(c) /\ ~ShortGoes(c)
    BY <1>1 DEF DataGoes, LackGoes, ShortGoes, BlockGoes
  <2>4. ~AckBack(c) /\ ~LackAcked(c) /\ ~StoredOk(c) /\ ~LastWord(c)
    BY <2>1 DEF AckBack, LackAcked, StoredOk, LastWord
  <2>5. ~OpensOk(c)
    BY <1>1 DEF OpensOk
  <2>6. Nothing(c)' <=> Nothing(c)
    BY <1>1 DEF Nothing, Empty
  <2>7. CASE AckLost(c)
    <3>1. Later(c, 3)'
      BY <1>1, <2>1, <2>2, <2>7 DEF AckLost, Written, InPut, Later
    <3>2. AckLost(c)'
      BY <1>1, <1>2, <2>6, <2>7, <3>1 DEF AckLost, transfer
    <3> QED BY <1>1, <1>2, <1>4, <3>2 DEF PutOk, Putting
  <2>8. CASE LackWaits(c)
    <3>1. spc \in InPut
      BY <2>8 DEF LackWaits, Missing, InPut
    <3>2. (Later(c, 3) => Later(c, 3)') /\ (Later(c, 1) => Later(c, 1)')
      BY <1>1, <2>1, <2>2, <3>1 DEF Later
    <3>3. (Missing(Len(rest[c]))' <=> Missing(Len(rest[c]))) /\ (Missing(0)' <=> Missing(0))
      BY <1>1 DEF Missing, transfer
    <3>4. LackWaits(c)'
      BY <1>1, <2>6, <2>8, <3>2, <3>3 DEF LackWaits
    <3> QED BY <1>1, <1>2, <1>4, <3>4 DEF PutOk, Putting
  <2>9. CASE IgnoredOk(c)
    <3>1. IgnoredOk(c)'
      BY <1>1, <2>9 DEF IgnoredOk
    <3> QED BY <1>1, <1>2, <1>4, <3>1 DEF PutOk, Putting
  <2> QED BY <1>4, <2>3, <2>4, <2>5, <2>7, <2>8, <2>9 DEF Putting
<1> QED BY <1>3, <1>4 DEF PutOk

(* ------------------------- losses: all together ------------------------ *)

\* A step of c, or of the server, or of time; and a loss.
LEMMA OwnLoss ==
  ASSUME TypeInv, LossInv, NEW c \in Client, ClientStep(c), Fair(c)'
  PROVE  CommandOk(c)'
<1>1. /\ UNCHANGED <<server, clean, lost, cmd, cfile>> /\ ~odd[c]
      /\ \A d \in Client \ {c} : cpc'[d] = cpc[d]
  BY ClientsFrame DEF Fair
<1>2. CommandOk(c)
  BY <1>1 DEF LossInv, Fair
<1> QED BY <1>1, <1>2, DeleteAnswered, GetAnswered, PutAnswered DEF CommandOk

LEMMA ServersLoss ==
  ASSUME TypeInv, LossInv, NEW c \in Client, ServerStep, Fair(c)'
  PROVE  CommandOk(c)'
<1>1. UNCHANGED <<client, clean, lost>> /\ ~odd[c]
  BY ServersFrame DEF Fair
<1>2. CommandOk(c)
  BY <1>1 DEF LossInv, Fair
<1>3. cpc' = cpc /\ cmd' = cmd
  BY <1>1 DEF client, transfer
<1> QED BY <1>1, <1>2, <1>3, DeleteServed, GetServed, PutServed DEF CommandOk

LEMMA LosesLoss ==
  ASSUME TypeInv, LossInv, NEW c \in Client, Lose, Fair(c)'
  PROVE  CommandOk(c)'
<1>1. UNCHANGED <<client, clean, odd>> /\ (lost'[c] <= 1 => lost[c] <= 1)
  BY LossIs DEF Fair
<1>2. CommandOk(c)
  BY <1>1 DEF LossInv, Fair
<1>3. cpc' = cpc /\ cmd' = cmd
  BY <1>1 DEF client, transfer
<1> QED BY <1>1, <1>2, <1>3, DeleteLoses, GetLoses, PutLoses DEF CommandOk

LEMMA TicksLoss ==
  ASSUME TypeInv, LossInv, NEW c \in Client, Tick, Fair(c)'
  PROVE  CommandOk(c)'
<1>1. UNCHANGED <<cpc, transfer, clean, lost, odd>>
  BY TickIs DEF Fair
<1>2. CommandOk(c)
  BY <1>1 DEF LossInv, Fair
<1>3. cpc' = cpc /\ cmd' = cmd
  BY <1>1 DEF transfer
<1> QED BY <1>1, <1>2, <1>3, DeleteTicks, GetTicks, PutTicks DEF CommandOk

\* With LossInv, a client that is alone with the server stays so: nobody else
\* waits for anything.
LEMMA OthersLoss ==
  ASSUME TypeInv, LossInv, NEW c \in Client, NEW d \in Client, d # c, ClientStep(d), Fair(c)'
  PROVE  FALSE
<1>1. odd \in [Client -> BOOLEAN]
  BY TypeParts DEF HistTypes
<1>2. /\ UNCHANGED <<clean, lost, odd>>
      \/ odd' = [e \in Client |-> TRUE]
  BY DEF ClientStep, GetNoFile, GetSize, GetSmall, GetLarge, PutAck, Replied, Exited,
     GetTimesOut, GetSmallTimesOut, GetLargeTimesOut, PutAckTimesOut, ReplyTimesOut, TimesOut,
     Keeps, hist
<1>3. UNCHANGED <<clean, lost, odd>> /\ ~odd[c]
  BY <1>1, <1>2 DEF Fair
<1>4. CommandOk(c)
  BY <1>3 DEF LossInv, Fair
<1> QED BY <1>4, WhatClient DEF CommandOk

\* Nothing has begun.
LEMMA LossInit == Init => LossInv
<1> SUFFICES ASSUME Init, NEW c \in Client PROVE CommandOk(c)
  BY DEF LossInv
<1>1. cpc = [d \in Client |-> "prompt"] /\ cmd = [d \in Client |-> "none"]
  BY DEF Init, Start
<1> QED BY <1>1 DEF CommandOk, Waiting

LEMMA LossStays ==
  ASSUME LossInv, UNCHANGED vars
  PROVE  LossInv'
<1> SUFFICES ASSUME NEW c \in Client, Fair(c)' PROVE CommandOk(c)'
  BY DEF LossInv
<1>1. UNCHANGED <<cpc, cmd, cfile, need, done, rest, ctimer, dir, told, spc, sfile, sneed, sdone,
                  srest, stimer, disk, sq, cq, clean, lost, odd>>
  BY DEF vars, client, transfer, server, hist
<1>2. CommandOk(c)
  BY <1>1 DEF LossInv, Fair
<1>3. /\ Local(c)' = Local(c) /\ Remote(c)' = Remote(c) /\ (Nothing(c)' <=> Nothing(c))
      /\ (Fresh(c)' <=> Fresh(c)) /\ (Empty(c)' <=> Empty(c))
      /\ \A n : Later(c, n)' <=> Later(c, n)
      /\ (Measured(c)' <=> Measured(c)) /\ (Written(c)' <=> Written(c))
      /\ (BlockGoes(c)' <=> BlockGoes(c)) /\ \A n : Missing(n)' <=> Missing(n)
  BY <1>1 DEF Local, Remote, Nothing, Fresh, Empty, Later, Measured, Written, BlockGoes, Missing
<1>4. (DeleteOk(c)' <=> DeleteOk(c))
  BY <1>1, <1>3 DEF DeleteOk
<1>5. (GetOk(c)' <=> GetOk(c))
  <2>1. Asking(c)' <=> Asking(c)
    BY <1>1, <1>3 DEF Asking
  <2>2. Refused(c)' <=> Refused(c)
    BY <1>1, <1>3 DEF Refused
  <2>3. Opened(c)' <=> Opened(c)
    BY <1>1, <1>3 DEF Opened
  <2>4. Halved(c)' <=> Halved(c)
    BY <1>1, <1>3 DEF Halved
  <2>5. SmallOk(c)' <=> SmallOk(c)
    BY <1>1, <1>3 DEF SmallOk
  <2>6. BlockComes(c)' <=> BlockComes(c)
    BY <1>1, <1>3 DEF BlockComes
  <2>7. AckComes(c)' <=> AckComes(c)
    BY <1>1, <1>3 DEF AckComes
  <2>8. LargeOk(c)' <=> LargeOk(c)
    BY <1>3, <2>6, <2>7 DEF LargeOk
  <2>9. GotOk(c)' <=> GotOk(c)
    BY <1>1, <1>3 DEF GotOk
  <2>10. AskedOk(c)' <=> AskedOk(c)
    BY <1>3, <2>1, <2>2, <2>3, <2>4 DEF AskedOk
  <2> QED BY <1>1, <2>5, <2>8, <2>9, <2>10 DEF GetOk
<1>6. (PutOk(c)' <=> PutOk(c))
  <2>1. OpensOk(c)' <=> OpensOk(c)
    <3>1. PutMsg(c)' = PutMsg(c) /\ SizeOf(c)' = SizeOf(c) /\ FirstOf(c)' = FirstOf(c)
      BY <1>1, <1>3 DEF PutMsg, SizeOf, FirstOf
    <3> QED BY <1>1, <1>3, <3>1 DEF OpensOk
  <2>2. DataGoes(c)' <=> DataGoes(c)
    BY <1>1, <1>3 DEF DataGoes
  <2>3. (AckBack(c)' <=> AckBack(c)) /\ (AckLost(c)' <=> AckLost(c))
    BY <1>1, <1>3 DEF AckBack, AckLost
  <2>4. ShortGoes(c)' <=> ShortGoes(c)
    BY <1>1, <1>3 DEF ShortGoes
  <2>5. StoredOk(c)' <=> StoredOk(c)
    BY <1>1, <1>3 DEF StoredOk, Stored
  <2>6. LackGoes(c)' <=> LackGoes(c)
    BY <1>1, <1>3 DEF LackGoes
  <2>7. LackAcked(c)' <=> LackAcked(c)
    BY <1>1, <1>3 DEF LackAcked
  <2>8. LackWaits(c)' <=> LackWaits(c)
    BY <1>1, <1>3 DEF LackWaits
  <2>9. (LastWord(c)' <=> LastWord(c)) /\ (IgnoredOk(c)' <=> IgnoredOk(c))
    BY <1>1 DEF LastWord, IgnoredOk
  <2>10. Putting(c)' <=> Putting(c)
    BY <2>1, <2>2, <2>3, <2>4, <2>5, <2>6, <2>7, <2>8, <2>9 DEF Putting
  <2> QED BY <1>1, <1>3, <2>10 DEF PutOk
<1> QED BY <1>1, <1>2, <1>4, <1>5, <1>6 DEF CommandOk

LEMMA LossStep == TypeInv /\ LossInv /\ [Next]_vars => LossInv'
<1> SUFFICES ASSUME TypeInv, LossInv, [Next]_vars PROVE LossInv'
  OBVIOUS
<1>1. ASSUME NEW c \in Client, Fair(c)', Next PROVE CommandOk(c)'
  <2>1. ASSUME NEW d \in Client, Enter(d) PROVE CommandOk(c)'
    BY <1>1, <2>1, EnterLoss
  <2>2. ASSUME NEW d \in Client, ClientStep(d) PROVE CommandOk(c)'
    <3>1. CASE d = c
      BY <1>1, <2>2, <3>1, OwnLoss
    <3>2. CASE d # c
      BY <1>1, <2>2, <3>2, OthersLoss
    <3> QED BY <3>1, <3>2
  <2>3. CASE ServerStep
    BY <1>1, <2>3, ServersLoss
  <2>4. CASE Lose
    BY <1>1, <2>4, LosesLoss
  <2>5. CASE Tick
    BY <1>1, <2>5, TicksLoss
  <2>6. ~Reorder /\ ~Duplicate
    <3>1. Reorder \/ Duplicate => odd' = [d \in Client |-> TRUE]
      BY DEF Reorder, Duplicate, Odd
    <3> QED BY <1>1, <3>1 DEF Fair
  <2> QED BY <1>1, <2>1, <2>2, <2>3, <2>4, <2>5, <2>6 DEF Next
<1>2. CASE Next
  BY <1>1, <1>2 DEF LossInv
<1>3. CASE UNCHANGED vars
  BY <1>3, LossStays
<1> QED BY <1>2, <1>3

LEMMA LossInvariant == Spec => []LossInv
<1>1. Spec => Init /\ [][Next]_vars
  BY DEF Spec
<1> QED BY <1>1, LossInit, LossStep, TypeInvariant, PTL

\* A put that says it was successful stored the file on the server, though
\* one datagram may have been lost: the server, which waits five seconds,
\* says so of a part of the file only to a client that has given up after its
\* two and two.
THEOREM PutsAreStored == Spec => []PutIsStored
<1>1. LossInv => PutIsStored
  BY DEF LossInv, PutIsStored, CommandOk, PutOk, Finished, Local, Remote
<1> QED BY <1>1, LossInvariant, PTL

\* A get that says it was successful gave the file, if nothing was lost; with
\* losses, as many as there may be, the local file is a beginning of it, or
\* what fwrite of -1 bytes leaves of a short file.
THEOREM GetsArePrefixes == Spec => []GetIsPrefix
<1>1. LossInv => GetIsPrefix
  BY DEF LossInv, GetIsPrefix, CommandOk, GetOk, GotOk, Begins, Finished, Local, Remote
<1> QED BY <1>1, LossInvariant, PTL

\* delete reports a success, and get a file that does not exist, only when
\* the server has no such file, whatever was lost.
THEOREM AnswersAreTrue == Spec => []AnswerIsTrue
<1>1. LossInv => AnswerIsTrue
  BY DEF LossInv, AnswerIsTrue, CommandOk, DeleteOk, GetOk, GotOk, Finished, Remote
<1> QED BY <1>1, LossInvariant, PTL
=============================================================================
