-------------------------------- MODULE Uftp --------------------------------
(***************************************************************************)
(* The file transfer of PA1: clients (uftp_client-2.c) that take commands  *)
(* from a user, one server (uftp_server-2.c) that serves one request at a  *)
(* time from one socket, and UDP between them, which may lose, delay,      *)
(* duplicate and reorder datagrams.                                        *)
(*                                                                         *)
(* A datagram is its kind t and what of it the programs look at.  Nothing  *)
(* in it says which transfer or which block it belongs to: a program takes *)
(* whatever comes next for what it waits for.  A file is a sequence of     *)
(* units; Buf of them fill the buffer, and less than Buf is a short file.  *)
(* No file reads as a number or a command, and every text that is not a    *)
(* size reads as the number 0.                                             *)
(*                                                                         *)
(* Time passes in seconds, by Tick, and only when nobody has anything to   *)
(* do: both programs answer at once.                                       *)
(***************************************************************************)
EXTENDS Integers, Sequences

CONSTANTS
  Client,       \* the client processes
  File,         \* file names
  Buf,          \* BUFSIZE, in units
  Unit,         \* what files are made of
  Text,         \* the unit that a message leaves in a file
  Junk,         \* what fwrite of -1 bytes leaves in a file
  Cmds,         \* commands the users enter
  MaxCmd,       \* bound on the commands a user enters
  FaultKinds,   \* what UDP does: "lose", "delay", "reorder", "duplicate"
  MaxFault,     \* bound on how often
  NoOne         \* no client

Absent == <<NoOne>>             \* no such file
\* The client knows five commands.  It sends any other line to the server too
\* (145) before it says "Invalid input" (406): that is left out.
Commands == {"get", "put", "delete", "ls", "exit"}

ASSUME UftpAssumption ==
  /\ Buf \in Nat \ {0, 1} /\ MaxCmd \in Nat /\ MaxFault \in Nat
  /\ Cmds \subseteq Commands
  /\ FaultKinds \subseteq {"lose", "delay", "reorder", "duplicate"}
  /\ NoOne \notin Client \cup Unit \cup {Text, Junk} /\ NoOne \notin File

VARIABLES
  cpc,          \* where each client is
  cmd, cfile,   \* command and file_requested
  need, done,   \* size_of_file, and received
  rest,         \* put: what of the file is still to be sent
  ctimer,       \* seconds until its recvfrom times out
  dir,          \* the client's directory
  told,         \* what it told its user at last
  entered,      \* how many commands were entered
  spc,          \* where the server is
  sfile, sneed, sdone, srest, stimer,   \* the same of the server
  peer,         \* clientaddr
  disk,         \* the server's directory
  sq,           \* datagrams on their way to the server or in its socket
  cq,           \* those for each client
  faults,       \* how often UDP misbehaved
  clean,        \* history: nothing was under way when the command began
  lost,         \* history: losses since
  odd           \* history: since then another client came in, or a datagram
                \* was late, doubled or out of order

transfer == <<cmd, cfile, need, done, rest>>
client == <<cpc, transfer, ctimer, dir, told, entered>>
server == <<spc, sfile, sneed, sdone, srest, stimer, peer, disk>>
hist == <<faults, clean, lost, odd>>
vars == <<client, server, sq, cq, hist>>

Waiting == {"get_size", "get_small", "get_large", "put_ack", "put_final", "reply"}
InPut == {"put_size", "put_small", "put_large"}
CTimeout == 2
STimeout3 == 3                     \* a mutant: the server waits less
STimeout == 5

(* ------------------------------ datagrams ----------------------------- *)

Msg(t) == [t |-> t, bytes |-> <<Text>>]
\* Many answers are sent with the length of the buffer, not of the text.
FullMsg(t) == [t |-> t, bytes |-> [i \in 1..Buf |-> Text]]
Request(t, f) == [t |-> t, file |-> f, bytes |-> <<Text>>]
SizeMsg(n) == [t |-> "size", n |-> n, bytes |-> <<Text>>]
Block(data) == [t |-> "block", bytes |-> data]
Ack == FullMsg("ack")

NumberOrError(d) ==                \* a mutant: -1 for a text that is no number
  IF d.t = "size" THEN d.n ELSE 0 - 1
Number(d) == IF d.t = "size" THEN d.n ELSE 0                     \* strtol
FirstBlock(data) == IF Len(data) > Buf THEN SubSeq(data, 1, Buf) ELSE data
AfterBlock(data) == IF Len(data) > Buf THEN SubSeq(data, Buf + 1, Len(data)) ELSE <<>>

\* What the sender of a file sends before it waits: a short file at once.
Opening(data) == <<SizeMsg(Len(data)), Block(FirstBlock(data))>>
IsShort(n) == Buf > n

ToServer(c, ds) == sq' = IF spc = "dead" THEN sq
                         ELSE sq \o [i \in DOMAIN ds |-> [from |-> c, d |-> ds[i]]]
ToClient(c, ds) == cq' = IF c = NoOne \/ cpc[c] \in {"gone", "dead"} THEN cq
                         ELSE [cq EXCEPT ![c] = @ \o ds]

(* ------------------------------- initially ---------------------------- *)

\* The directories are those with which the programs were started.
Start(localFiles, serverFiles) ==
  /\ cpc = [c \in Client |-> "prompt"]
  /\ cmd = [c \in Client |-> "none"] /\ cfile = [c \in Client |-> NoOne]
  /\ need = [c \in Client |-> 0] /\ done = [c \in Client |-> 0]
  /\ rest = [c \in Client |-> <<>>] /\ ctimer = [c \in Client |-> 0]
  /\ dir = localFiles
  /\ told = [c \in Client |-> "nothing"] /\ entered = [c \in Client |-> 0]
  /\ spc = "top" /\ sfile = NoOne /\ sneed = 0 /\ sdone = 0 /\ srest = <<>>
  /\ stimer = 0 /\ peer = NoOne /\ disk = serverFiles
  /\ sq = <<>> /\ cq = [c \in Client |-> <<>>]
  /\ faults = 0
  /\ clean = [c \in Client |-> TRUE]
  /\ lost = [c \in Client |-> 0]
  /\ odd = [c \in Client |-> FALSE]

Files == [File -> Seq(Unit) \cup {Absent}]
Init == \E localFiles \in [Client -> Files], serverFiles \in Files :
          Start(localFiles, serverFiles)

(* --------------------------- client: commands ------------------------- *)

Quiet == /\ sq = <<>> /\ spc = "top"
         /\ \A c \in Client : cq[c] = <<>> /\ cpc[c] \notin Waiting

\* A command is entered; with it the history of this command begins, and
\* that of the other clients' commands is disturbed.  What disturbed c's own
\* last command may still be under way.
Enters(c, command, f) ==
  /\ cpc[c] = "prompt" /\ entered[c] < MaxCmd /\ command \in Cmds
  /\ entered' = [entered EXCEPT ![c] = @ + 1]
  /\ cmd' = [cmd EXCEPT ![c] = command]
  /\ cfile' = [cfile EXCEPT ![c] = f]
  /\ clean' = [clean EXCEPT ![c] = Quiet]
  /\ lost' = [lost EXCEPT ![c] = 0]
  /\ odd' = [d \in Client |-> d # c \/ (odd[c] /\ ~Quiet)]
  /\ UNCHANGED <<faults, server, cq, dir>>

\* Wait for the next datagram, with the timeout of the socket.
WaitIn(c, state) == /\ cpc' = [cpc EXCEPT ![c] = state]
                    /\ ctimer' = [ctimer EXCEPT ![c] = CTimeout]
\* Tell the user and go back to the prompt.
Tells(c, what) == /\ cpc' = [cpc EXCEPT ![c] = "prompt"]
                  /\ ctimer' = [ctimer EXCEPT ![c] = 0]
                  /\ told' = [told EXCEPT ![c] = what]

Get(c, f) ==
  /\ Enters(c, "get", f)
  /\ ToServer(c, <<Request("get", f)>>)
  /\ WaitIn(c, "get_size")
  /\ UNCHANGED <<need, done, rest, told>>

\* The server is told to expect a file, and then that there is none.
PutNoFile(c, f) ==
  /\ Enters(c, "put", f) /\ dir[c][f] = Absent
  /\ ToServer(c, <<Request("put", f), Msg("do_not_create")>>)
  /\ Tells(c, "enter_an_existing_file")
  /\ UNCHANGED <<need, done, rest>>

Put(c, f) ==
  LET data == dir[c][f] IN
  /\ Enters(c, "put", f) /\ data # Absent
  /\ ToServer(c, <<Request("put", f)>> \o Opening(data))
  /\ rest' = [rest EXCEPT ![c] = AfterBlock(data)]
  /\ WaitIn(c, IF IsShort(Len(data)) THEN "put_final" ELSE "put_ack")
  /\ UNCHANGED <<need, done, told>>

Delete(c, f) ==
  /\ Enters(c, "delete", f)
  /\ ToServer(c, <<Request("delete", f)>>)
  /\ WaitIn(c, "reply")
  /\ UNCHANGED <<need, done, rest, told>>

ListOrExit(c) ==
  \E command \in {"ls", "exit"} :
    /\ Enters(c, command, NoOne)
    /\ ToServer(c, <<Request(command, NoOne)>>)
    /\ WaitIn(c, "reply")
    /\ UNCHANGED <<need, done, rest, told>>

(* ---------------------------- client: receives ------------------------ *)

\* recvfrom of client c, which waits in state, returns the next datagram; it
\* times out: nothing has come, or what is under way is late.
Receives(c, state) == cpc[c] = state /\ cq[c] # <<>>
Got(c) == Head(cq[c])
Took(c) == cq' = [cq EXCEPT ![c] = Tail(@)]
Keeps == UNCHANGED <<cmd, cfile, entered, server, hist>>

NeverTimesOut(c, state) == FALSE   \* a mutant: no SO_RCVTIMEO
TimesOut(c, state) ==
  /\ cpc[c] = state /\ ctimer[c] = 0
  /\ \/ cq[c] = <<>> /\ UNCHANGED <<faults, odd>>
     \/ /\ cq[c] # <<>> /\ "delay" \in FaultKinds /\ faults < MaxFault
        /\ faults' = faults + 1
        /\ odd' = [d \in Client |-> TRUE]
  /\ UNCHANGED <<clean, lost, entered, server, cmd, cfile>>

\* The answer to get: "File does not exist", or a size.  The local file is
\* emptied before anything of the new one has come.
GetNoFile(c) ==
  /\ Receives(c, "get_size") /\ Got(c).t = "no_file" /\ Took(c)
  /\ Tells(c, "no_file")
  /\ UNCHANGED <<need, done, rest, dir, sq>> /\ Keeps

GetSize(c) ==
  /\ Receives(c, "get_size") /\ Got(c).t # "no_file" /\ Took(c)
  /\ dir' = [dir EXCEPT ![c][cfile[c]] = <<>>]
  /\ need' = [need EXCEPT ![c] = Number(Got(c))]
  /\ done' = [done EXCEPT ![c] = 0]
  /\ WaitIn(c, IF IsShort(Number(Got(c))) THEN "get_small" ELSE "get_large")
  /\ UNCHANGED <<rest, told, sq>> /\ Keeps

GetSmall(c) ==
  /\ Receives(c, "get_small") /\ Took(c)
  /\ dir' = [dir EXCEPT ![c][cfile[c]] = Got(c).bytes]
  /\ Tells(c, "get_successful")
  /\ UNCHANGED <<need, done, rest, sq>> /\ Keeps

GetLargeNoAck(c) ==                \* a mutant: no ACK is sent
  LET received == done[c] + Len(Got(c).bytes) IN
  /\ Receives(c, "get_large") /\ Took(c) /\ UNCHANGED sq
  /\ dir' = [dir EXCEPT ![c][cfile[c]] = @ \o Got(c).bytes]
  /\ done' = [done EXCEPT ![c] = received]
  /\ IF received < need[c] THEN WaitIn(c, "get_large") /\ UNCHANGED told
                           ELSE Tells(c, "get_successful")
  /\ UNCHANGED <<need, rest>> /\ Keeps

\* A block of a long file: write it and send an ACK.
GetLarge(c) ==
  LET received == done[c] + Len(Got(c).bytes) IN
  /\ Receives(c, "get_large") /\ Took(c) /\ ToServer(c, <<Ack>>)
  /\ dir' = [dir EXCEPT ![c][cfile[c]] = @ \o Got(c).bytes]
  /\ done' = [done EXCEPT ![c] = received]
  /\ IF received < need[c] THEN WaitIn(c, "get_large") /\ UNCHANGED told
                           ELSE Tells(c, "get_successful")
  /\ UNCHANGED <<need, rest>> /\ Keeps

GetTimesOut(c) ==
  /\ TimesOut(c, "get_size")
  /\ Tells(c, "timeout")
  /\ UNCHANGED <<need, done, rest, dir, sq, cq>>

\* fwrite is given -1 for a size: the program dies of it, or goes on.
GetSmallTimesOut(c) ==
  /\ TimesOut(c, "get_small")
  /\ dir' = [dir EXCEPT ![c][cfile[c]] = <<Junk>>]
  /\ \/ Tells(c, "get_successful") /\ UNCHANGED cq
     \/ /\ cpc' = [cpc EXCEPT ![c] = "dead"]
        /\ cq' = [cq EXCEPT ![c] = <<>>]
        /\ UNCHANGED <<ctimer, told>>
  /\ UNCHANGED <<need, done, rest, sq>>

\* "packet may have been lost!", and then "Get Successful".
GetLargeTimesOut(c) ==
  /\ TimesOut(c, "get_large")
  /\ Tells(c, "lost_get_successful")
  /\ UNCHANGED <<need, done, rest, dir, sq, cq>>

\* put of a long file: on with the next block, whether an ACK came or not.
NextBlock(c) ==
  IF rest[c] # <<>>
  THEN /\ ToServer(c, <<Block(FirstBlock(rest[c]))>>)
       /\ rest' = [rest EXCEPT ![c] = AfterBlock(@)]
       /\ WaitIn(c, "put_ack")
  ELSE WaitIn(c, "put_final") /\ UNCHANGED <<sq, rest>>

PutAck(c) ==
  /\ Receives(c, "put_ack") /\ Took(c)
  /\ NextBlock(c)
  /\ UNCHANGED <<need, done, dir, told>> /\ Keeps

PutAckTimesOut(c) ==
  /\ TimesOut(c, "put_ack")
  /\ NextBlock(c)
  /\ UNCHANGED <<need, done, dir, told, cq>>

\* put, delete, ls: whatever comes now is printed as the answer.
Replied(c) ==
  /\ Receives(c, "put_final") \/ (Receives(c, "reply") /\ cmd[c] # "exit")
  /\ Took(c)
  /\ Tells(c, Got(c).t)
  /\ UNCHANGED <<need, done, rest, dir, sq>> /\ Keeps

\* Whatever comes ends the program.
Exited(c) ==
  /\ Receives(c, "reply") /\ cmd[c] = "exit"
  /\ cpc' = [cpc EXCEPT ![c] = "gone"]
  /\ cq' = [cq EXCEPT ![c] = <<>>]
  /\ UNCHANGED <<need, done, rest, dir, ctimer, told, sq>> /\ Keeps

ReplyTimesOut(c) ==
  /\ TimesOut(c, "put_final") \/ TimesOut(c, "reply")
  /\ Tells(c, "timeout")
  /\ UNCHANGED <<need, done, rest, dir, sq, cq>>

(* -------------------------------- server ------------------------------ *)

Here == Head(sq).d
From == Head(sq).from
\* The server takes the next datagram in the given state, and remembers who
\* sent it as the one to answer.
Takes(state) ==
  /\ spc = state /\ sq # <<>>
  /\ sq' = Tail(sq) /\ peer' = From
  /\ UNCHANGED <<client, hist>>
Goto(state) == spc' = state /\ stimer' = IF state \in InPut THEN STimeout ELSE 0
Forgets == sfile' = NoOne /\ sneed' = 0 /\ sdone' = 0 /\ srest' = <<>>

\* get of a file that is there: size and first block at once; the rest, if
\* it is long, as ACKs come.
ServeGet ==
  LET data == disk[Here.file] IN
  /\ Takes("top") /\ Here.t = "get" /\ data # Absent
  /\ ToClient(From, Opening(data))
  /\ Goto(IF IsShort(Len(data)) THEN "top" ELSE "get_ack")
  /\ srest' = AfterBlock(data)
  /\ UNCHANGED <<sfile, sneed, sdone, disk>>

ServeGetNoFile ==
  /\ Takes("top") /\ Here.t = "get" /\ disk[Here.file] = Absent
  /\ ToClient(From, <<Msg("no_file")>>)
  /\ UNCHANGED <<spc, sfile, sneed, sdone, srest, stimer, disk>>

\* recvfrom without a timeout; any datagram is as good as an ACK.
ServeAck ==
  /\ Takes("get_ack")
  /\ IF srest # <<>>
       THEN /\ ToClient(From, <<Block(FirstBlock(srest))>>)
            /\ srest' = AfterBlock(srest)
            /\ UNCHANGED <<spc, stimer>>
       ELSE Goto("top") /\ UNCHANGED <<cq, srest>>
  /\ UNCHANGED <<sfile, sneed, sdone, disk>>

ServePut ==
  /\ Takes("top") /\ Here.t = "put"
  /\ sfile' = Here.file
  /\ Goto("put_size")
  /\ UNCHANGED <<cq, sneed, sdone, srest, disk>>

\* fopen "w+" and wait for the data of a file of n units.
Expect(n) ==
  /\ disk' = [disk EXCEPT ![sfile] = <<>>]
  /\ sneed' = n /\ sdone' = 0
  /\ Goto(IF IsShort(n) THEN "put_small" ELSE "put_large")
  /\ UNCHANGED <<sfile, srest, cq>>

\* This recvfrom leaves clientaddr alone.
ServePutSize ==
  /\ spc = "put_size" /\ sq # <<>> /\ Here.t # "do_not_create"
  /\ sq' = Tail(sq)
  /\ Expect(Number(Here))
  /\ UNCHANGED <<peer, client, hist>>

ServePutNoFile ==
  /\ spc = "put_size" /\ sq # <<>> /\ Here.t = "do_not_create"
  /\ sq' = Tail(sq)
  /\ Goto("top") /\ Forgets
  /\ UNCHANGED <<peer, disk, cq, client, hist>>

ServePutSmallAcks ==               \* a mutant: an ACK, as for a long file
  /\ Takes("put_small")
  /\ disk' = [disk EXCEPT ![sfile] = Here.bytes]
  /\ ToClient(From, <<Ack, FullMsg("put_successful")>>)
  /\ Goto("top") /\ Forgets

ServePutSmall ==
  /\ Takes("put_small")
  /\ disk' = [disk EXCEPT ![sfile] = Here.bytes]
  /\ ToClient(From, <<FullMsg("put_successful")>>)
  /\ Goto("top") /\ Forgets

ServePutLarge ==
  LET received == sdone + Len(Here.bytes) IN
  /\ Takes("put_large")
  /\ disk' = [disk EXCEPT ![sfile] = @ \o Here.bytes]
  /\ IF received < sneed
       THEN /\ ToClient(From, <<Ack>>)
            /\ sdone' = received
            /\ Goto("put_large")
            /\ UNCHANGED <<sfile, sneed, srest>>
       ELSE /\ ToClient(From, <<Ack, FullMsg("put_successful")>>)
            /\ Goto("top") /\ Forgets

ServeDeleteUntested ==             \* a mutant: remove fails unnoticed
  /\ Takes("top") /\ Here.t = "delete"
  /\ ToClient(From, <<FullMsg("delete_successful")>>)
  /\ UNCHANGED <<spc, sfile, sneed, sdone, srest, stimer, disk>>

ServeDelete ==
  /\ Takes("top") /\ Here.t = "delete"
  /\ disk' = [disk EXCEPT ![Here.file] = Absent]
  /\ ToClient(From, <<FullMsg(IF disk[Here.file] = Absent
                              THEN "delete_failed" ELSE "delete_successful")>>)
  /\ UNCHANGED <<spc, sfile, sneed, sdone, srest, stimer>>

ServeListOrExit ==
  /\ Takes("top") /\ Here.t \in {"ls", "exit"}
  /\ ToClient(From, <<FullMsg(Here.t)>>)
  /\ UNCHANGED <<spc, sfile, sneed, sdone, srest, stimer, disk>>

\* What is no command gets no answer.  (A block of BUFSIZE bytes has no 0 at
\* its end, and strcpy at 144 copies on; it is taken for text all the same.)
ServeOther ==
  /\ Takes("top") /\ Here.t \notin Commands /\ Here.bytes # <<>>
  /\ UNCHANGED <<cq, spc, sfile, sneed, sdone, srest, stimer, disk>>

Die == /\ spc' = "dead" /\ stimer' = 0 /\ sq' = <<>> /\ Forgets

\* strcmp of NULL: an empty datagram has no first word.
ServeEmpty ==
  /\ spc = "top" /\ sq # <<>> /\ Here.bytes = <<>>
  /\ Die
  /\ UNCHANGED <<peer, disk, cq, client, hist>>

(* ---------------------- server: five seconds of a put ----------------- *)

ServerNeverTimesOut(state) == FALSE    \* a mutant: no SO_RCVTIMEO
ServerTimesOut(state) ==
  /\ spc = state /\ stimer = 0
  /\ \/ sq = <<>> /\ UNCHANGED <<faults, odd>>
     \/ /\ sq # <<>> /\ "delay" \in FaultKinds /\ faults < MaxFault
        /\ faults' = faults + 1
        /\ odd' = [d \in Client |-> TRUE]
  /\ UNCHANGED <<clean, lost, client, peer>>

\* The buffer is empty, which reads as a size of 0.
PutSizeTimesOut == ServerTimesOut("put_size") /\ Expect(0) /\ UNCHANGED sq

\* fwrite is given -1 for a size.
PutSmallTimesOut ==
  /\ ServerTimesOut("put_small")
  /\ disk' = [disk EXCEPT ![sfile] = <<Junk>>]
  /\ \/ /\ ToClient(peer, <<FullMsg("put_successful")>>)
        /\ Goto("top") /\ Forgets
        /\ UNCHANGED sq
     \/ Die /\ UNCHANGED cq

PutLargeTimesOut ==
  /\ ServerTimesOut("put_large")
  /\ ToClient(peer, <<FullMsg("put_successful")>>)
  /\ Goto("top") /\ Forgets
  /\ UNCHANGED <<sq, disk>>

(* -------------------------------- network ----------------------------- *)

Fault(kind) == /\ kind \in FaultKinds /\ faults < MaxFault
               /\ faults' = faults + 1
               /\ UNCHANGED <<client, server, clean>>
Drop(q, i) == SubSeq(q, 1, i - 1) \o SubSeq(q, i + 1, Len(q))
Swap(q, i) == [q EXCEPT ![i] = q[i+1], ![i+1] = q[i]]
Odd == odd' = [d \in Client |-> TRUE] /\ UNCHANGED lost
OnAQueue(Op(_, _), More(_)) ==
  \/ /\ \E i \in DOMAIN sq : More(sq) >= i /\ sq' = Op(sq, i)
     /\ UNCHANGED cq
  \/ /\ \E c \in Client : \E i \in DOMAIN cq[c] :
          More(cq[c]) >= i /\ cq' = [cq EXCEPT ![c] = Op(@, i)]
     /\ UNCHANGED sq

Lose == /\ Fault("lose") /\ OnAQueue(Drop, Len)
        /\ lost' = [c \in Client |-> lost[c] + 1]
        /\ UNCHANGED odd
Reorder == Fault("reorder") /\ Odd /\ OnAQueue(Swap, LAMBDA q : Len(q) - 1)
Duplicate == Fault("duplicate") /\ Odd /\ OnAQueue(LAMBDA q, i : Append(q, q[i]), Len)

\* A second passes when nobody has anything to do, or when what is under
\* way takes that long.
Tick ==
  /\ \A c \in Client : cpc[c] \in Waiting => ctimer[c] > 0
  /\ spc \in InPut => stimer > 0
  /\ spc \in InPut \/ \E c \in Client : cpc[c] \in Waiting
  /\ IF \/ sq # <<>>
        \/ \E c \in Client : cpc[c] \in Waiting /\ cq[c] # <<>>
       THEN /\ "delay" \in FaultKinds /\ faults < MaxFault
            /\ faults' = faults + 1
            /\ odd' = [d \in Client |-> TRUE]
       ELSE UNCHANGED <<faults, odd>>
  /\ ctimer' = [c \in Client |-> IF cpc[c] \in Waiting THEN ctimer[c] - 1 ELSE 0]
  /\ stimer' = IF spc \in InPut THEN stimer - 1 ELSE 0
  /\ UNCHANGED <<cpc, transfer, dir, told, entered, spc, sfile, sneed, sdone,
                 srest, peer, disk, sq, cq, clean, lost>>

(* ------------------------------ next state ---------------------------- *)

Enter(c) == \/ \E f \in File : Get(c, f) \/ PutNoFile(c, f) \/ Put(c, f) \/ Delete(c, f)
            \/ ListOrExit(c)
ClientStep(c) ==
  \/ GetNoFile(c) \/ GetSize(c) \/ GetSmall(c) \/ GetLarge(c) \/ PutAck(c)
  \/ Replied(c) \/ Exited(c)
  \/ GetTimesOut(c) \/ GetSmallTimesOut(c) \/ GetLargeTimesOut(c)
  \/ PutAckTimesOut(c) \/ ReplyTimesOut(c)
ServerStep ==
  \/ ServeGet \/ ServeGetNoFile \/ ServeAck \/ ServePut \/ ServePutSize
  \/ ServePutNoFile \/ ServePutSmall \/ ServePutLarge \/ ServeDelete
  \/ ServeListOrExit \/ ServeOther \/ ServeEmpty
  \/ PutSizeTimesOut \/ PutSmallTimesOut \/ PutLargeTimesOut

Next ==
  \/ \E c \in Client : Enter(c) \/ ClientStep(c)
  \/ ServerStep
  \/ Lose \/ Reorder \/ Duplicate \/ Tick

\* Both programs run, and time passes.  Nobody has to enter commands, and
\* nothing has to go wrong.
Fairness == /\ \A c \in Client : WF_vars(ClientStep(c))
            /\ WF_vars(ServerStep) /\ WF_vars(Tick)
Spec == Init /\ [][Next]_vars /\ Fairness

(* ------------------------------ properties ---------------------------- *)

Data == Seq(Unit \cup {Text, Junk})
Datagram ==
  [t : {"no_file", "do_not_create", "ack", "ls", "exit", "put_successful",
        "delete_failed", "delete_successful", "block"}, bytes : Data]
    \cup [t : Commands, file : File \cup {NoOne}, bytes : Data]
    \cup [t : {"size"}, n : Nat, bytes : Data]
Told == {"nothing", "enter_an_existing_file", "no_file", "get_successful",
         "lost_get_successful", "timeout", "size", "block", "ack", "ls", "exit",
         "put_successful", "delete_failed", "delete_successful"}

\* Every variable keeps its type.
TypeOK ==
  /\ cpc \in [Client -> Waiting \cup {"prompt", "gone", "dead"}]
  /\ cmd \in [Client -> Commands \cup {"none"}]
  /\ cfile \in [Client -> File \cup {NoOne}]
  /\ need \in [Client -> Nat] /\ done \in [Client -> Nat] /\ rest \in [Client -> Data]
  /\ ctimer \in [Client -> 0..CTimeout]
  /\ dir \in [Client -> [File -> Data \cup {Absent}]]
  /\ told \in [Client -> Told] /\ entered \in [Client -> 0..MaxCmd]
  /\ spc \in InPut \cup {"top", "get_ack", "dead"}
  /\ sfile \in File \cup {NoOne} /\ sneed \in Nat /\ sdone \in Nat /\ srest \in Data
  /\ stimer \in 0..STimeout /\ peer \in Client \cup {NoOne}
  /\ disk \in [File -> Data \cup {Absent}]
  /\ sq \in Seq([from : Client, d : Datagram])
  /\ cq \in [Client -> Seq(Datagram)]
  /\ faults \in 0..MaxFault /\ clean \in [Client -> BOOLEAN]
  /\ lost \in [Client -> 0..MaxFault] /\ odd \in [Client -> BOOLEAN]

\* The last command of c began when nothing else was under way, and since
\* then UDP lost some datagrams, perhaps, and did nothing worse.
Fair(c) == clean[c] /\ ~odd[c]
Finished(c, command, answer) ==
  cpc[c] = "prompt" /\ cmd[c] = command /\ told[c] = answer

\* "PUT successful" is the truth even when a datagram was lost: the client
\* has given up, after two seconds for the ACK and two for the answer, when
\* the server comes to say so after its five.
PutIsStored ==
  \A c \in Client : Finished(c, "put", "put_successful") /\ Fair(c) /\ lost[c] <= 1 =>
    disk[cfile[c]] = dir[c][cfile[c]]

\* A get that says it was successful gave the file, if nothing was lost.
\* With losses the local file is a beginning of it, never a file with a
\* hole, or what fwrite of -1 bytes left.
GetIsPrefix ==
  \A c \in Client :
    LET mine == dir[c][cfile[c]]
        theirs == disk[cfile[c]] IN
    \/ ~Fair(c)
    \/ /\ ~Finished(c, "get", "get_successful")
       /\ ~Finished(c, "get", "lost_get_successful")
    \/ mine = theirs
    \/ /\ lost[c] > 0
       /\ \/ mine = <<Junk>>
          \/ Len(mine) < Len(theirs) /\ SubSeq(theirs, 1, Len(mine)) = mine

\* What delete and get say of the server's directory is so, whatever was
\* lost.
AnswerIsTrue ==
  \A c \in Client : Fair(c) =>
    /\ Finished(c, "delete", "delete_successful") => disk[cfile[c]] = Absent
    /\ Finished(c, "get", "no_file") => disk[cfile[c]] = Absent

\* As long as UDP behaves and users take turns, nothing is left over that
\* the next command could take for its own: a client at its prompt has had
\* everything that was sent to it.
NothingLeftOver ==
  \A c \in Client : faults = 0 /\ ~odd[c] /\ cpc[c] = "prompt" => cq[c] = <<>>

\* Every command ends: each wait of the client has a timeout.
CommandsEnd == \A c \in Client : cpc[c] \in Waiting ~> cpc[c] \notin Waiting

\* The server does not stay in a put for ever.
PutsEnd == spc \in InPut ~> spc \notin InPut
=============================================================================
