------------------------- MODULE ChatSystem_proofs -------------------------
(***************************************************************************)
(* Theorems about ChatSystem: what ChatClient assumes of its server and    *)
(* ChatServer of its peers is what the other side does, and the server has *)
(* the client's name. The invariants of both components, proved on their   *)
(* own, are used here as parts of the system's.                            *)
(***************************************************************************)
EXTENDS ChatSystem, ChatServerViews_proofs

(* The client with what is proved of it.                                   *)
Proved == INSTANCE ChatClient_proofs

(* Client and Proved are the same specification, definition by definition. *)
LEMMA SameClient ==
  /\ Client!Init <=> Proved!Init
  /\ [Client!Next]_(Client!vars) <=> [Proved!Next]_(Proved!vars)
<1>1. Client!Init <=> Proved!Init
  BY DEF Client!Init, Proved!Init
<1>2. [Client!Next]_(Client!vars) <=> [Proved!Next]_(Proved!vars)
  BY DEF
      Client!Next, Client!Updated, Client!Top, Client!Tick,
      Client!ShutdownBranch, Client!TakeMessage, Client!TakeReset,
      Client!TakeEnd, Client!TakeAction, Client!Connected, Client!NotConnected,
      Client!Registered, Client!TuiSetup, Client!Update, Client!TuiShutdown, Client!Submit,
      Client!ServerAnswers, Client!ServerPushes, Client!ServerCloses,
      Client!vars, Client!taskVars, Client!tuiVars, Client!socketVars,
      Client!branchFrame, Client!HandleMessage, Client!Notified,
      Client!Terminated, Client!Refused, Client!DropConnection, Client!Quit,
      Client!ConnectedAction, Client!DisconnectedAction, Client!Receive,
      Client!Notify, Client!ChangeName, Client!PrivMsg, Client!Ask,
      Client!Disconnect, Client!Send, Client!Action, Client!NoAction,
      Client!OnlyNotifies, Client!Answers,
      Proved!Next, Proved!Updated, Proved!Top, Proved!Tick,
      Proved!ShutdownBranch, Proved!TakeMessage, Proved!TakeReset,
      Proved!TakeEnd, Proved!TakeAction, Proved!Connected, Proved!NotConnected,
      Proved!Registered, Proved!TuiSetup, Proved!Update, Proved!TuiShutdown, Proved!Submit,
      Proved!ServerAnswers, Proved!ServerPushes, Proved!ServerCloses,
      Proved!vars, Proved!taskVars, Proved!tuiVars, Proved!socketVars,
      Proved!branchFrame, Proved!HandleMessage, Proved!Notified,
      Proved!Terminated, Proved!Refused, Proved!DropConnection, Proved!Quit,
      Proved!ConnectedAction, Proved!DisconnectedAction, Proved!Receive,
      Proved!Notify, Proved!ChangeName, Proved!PrivMsg, Proved!Ask,
      Proved!Disconnect, Proved!Send, Proved!Action, Proved!NoAction,
      Proved!OnlyNotifies, Proved!Answers
<1> QED  BY <1>1, <1>2

(* The requests of both are the same set.                                  *)
LEMMA SameRequests == Client!Request = Proved!Request
BY DEF Client!Request, Proved!Request

(* The bounds of the client are as ChatClient wants them.                  *)
LEMMA ClientConstants ==
  NoName \notin Names /\ MaxActions \in Nat /\ MaxPushed \in Nat
BY ServerAssumption, ChatSystemAssumption

----------------------------------------------------------------------------
(* The invariant.                                                          *)

(* The client's connection is one of those it made, whose task is past the *)
(* handshake; what is left in a socket is left in one it dropped; a socket *)
(* that is closed holds no requests.                                       *)
Connection ==
  /\ mine \subseteq Ids
  /\ leftover \in [Ids -> Seq(Client!Request)]
  /\ \A id \in Ids : leftover[id] # <<>> => id \in mine
  /\ connection_handle =>
       link \in mine /\ conn[link] \in {"select", "waiting", "done"} /\ leftover[link] = <<>>
  /\ ~connection_handle => link = NoId
  /\ stream # "open" => to_server = <<>>

(* The client has a connection but has not sent its registration yet. The  *)
(* server does not move until it has.                                      *)
Registering == state_task = "registering"

FreshSocket ==
  Registering =>
    /\ connection_handle /\ stream = "open" /\ to_server = <<>>
    /\ conn[link] = "select" /\ link \notin asked /\ view[link].name = NoName

(* Of the requests in a socket the first is a registration, unless one was *)
(* read before, and no other is.                                           *)
RegistersFirst(id, q) ==
  \A k \in DOMAIN q : q[k].type = "Register" <=> (k = 1 /\ id \notin asked)

SocketsRegister ==
  /\ \A id \in Ids : RegistersFirst(id, leftover[id])
  /\ Listening(link) =>
       RegistersFirst(link, Unread) /\ (Registering \/ link \in asked \/ Unread # <<>>)

(* The answers a handler can give to a request.                            *)
Suits(id, request, m) ==
  \/ /\ request.type = "Register"
     /\ m = Answered("Registered", request.arg) \/ m = Failed("Register")
  \/ /\ request.type = "ChangeName"
     /\ \/ m = Answered("ChangedName", request.arg) /\ view[id].name # NoName
        \/ m = Failed("ChangeName")
  \/ /\ request.type \notin {"Register", "ChangeName"}
     /\ \/ m.type \in {"OutgoingMsg", "Listing", "CreatedRoom", "Joined", "LeftRoom",
                       "MessagedRoom"}
        \/ m = Failed(request.type)

(* While the connection task waits, the request that it waits for is the   *)
(* one in front of the client's socket.                                    *)
Outstanding ==
  (Listening(link) /\ conn[link] = "waiting") =>
    /\ to_server # <<>>
    /\ link \in asked
    /\ \A k \in DOMAIN rx : rx[k].id = link => rx[k].request \in Meant(Head(to_server))
    /\ reply[link] # NoReply =>
         \E request \in Meant(Head(to_server)) : Suits(link, request, reply[link])

(* The server's name for the client is what it was told; it is told none   *)
(* until its registration is answered, or if it was refused.               *)
NameTold ==
  Listening(link) =>
    /\ server_name = view[link].name
    /\ view[link].name = NoName =>
         \/ Registering
         \/ to_server # <<>> /\ Head(to_server).type = "Register"
         \/ \E i \in DOMAIN from_server : Client!Refused(from_server[i])

LinkInv == Connection /\ FreshSocket /\ SocketsRegister /\ Outstanding /\ NameTold

SystemInv == IInv /\ ViewInv /\ Proved!IInv /\ LinkInv

(* What the invariant says of the types of the socket and its connection.  *)
LEMMA SystemTypes ==
  ASSUME SystemInv
  PROVE  /\ to_server \in Seq(Client!Request)
         /\ connection_handle \in BOOLEAN
         /\ stream \in {"open", "reset", "end"}
         /\ conn \in [Ids -> ConnState] /\ reply \in [Ids -> Reply]
         /\ view \in [Ids -> View] /\ rx \in Seq(Event)
         /\ asked \subseteq Ids
         /\ connection_handle => link \in Ids
         /\ ~connection_handle => /\ to_server = <<>> /\ from_server = <<>>
                                  /\ stream = "open" /\ server_name = NoName
BY SameRequests
DEF SystemInv, Proved!IInv, Proved!TypeOK, IInv, TypeOK, ChannelTypeOK, TaskTypeOK,
    HistoryTypeOK, View, LinkInv, Connection

----------------------------------------------------------------------------
(* Every step of the system is a step of the server's specification.       *)

(* What is asked for instead of a request of the client's can be read.     *)
LEMMA MeantTypes ==
  ASSUME NEW r \in Client!Request, NEW request \in Meant(r)
  PROVE  /\ request \in Request /\ request.type \in RequestTypes
         /\ request.type = "Register" <=> r.type = "Register"
         /\ request.type = "ChangeName" <=> r.type = "ChangeName"
         /\ r.type \in {"Register", "ChangeName"} => request.arg = r.name
<1>1. CASE r.type = "Ask"
  BY <1>1, ChatSystemAssumption DEF Meant
<1>2. CASE r.type # "Ask"
  <2>1. r.type \in {"Register", "ChangeName", "PrivMsg"} /\ r.name \in Names
    BY <1>2 DEF Client!Request
  <2>2. request = [type |-> r.type, arg |-> r.name]
    BY <1>2 DEF Meant
  <2> QED  BY <2>1, <2>2, ChatSystemAssumption DEF Request, NameRequest
<1> QED  BY <1>1, <1>2

(* The first request in a socket is a registration if none was read.       *)
LEMMA FirstRegisters ==
  ASSUME NEW q \in Seq(Client!Request), q # <<>>, NEW id, RegistersFirst(id, q)
  PROVE  /\ Head(q) \in Client!Request
         /\ Head(q).type = "Register" <=> id \notin asked
<1>1. 1 \in DOMAIN q /\ Head(q) = q[1] /\ Head(q) \in Client!Request  OBVIOUS
<1> QED  BY <1>1 DEF RegistersFirst

(* The client's requests, those left in its sockets and those of the other *)
(* peers are received as ChatServer assumes.                               *)
LEMMA ServerStep ==
  ASSUME SystemInv, [SystemNext]_systemVars
  PROVE  [Next]_vars
<1>1. CASE UNCHANGED vars
  BY <1>1
<1>2. CASE ReadClient
  <2>1. /\ connection_handle /\ to_server # <<>> /\ conn[link] = "select"
        /\ to_server \in Seq(Client!Request) /\ link \in Ids
    BY <1>2, SystemTypes DEF ReadClient, Read
  <2>2. Listening(link) /\ Unread = to_server
    BY <2>1, SystemTypes DEF SystemInv, LinkInv, Connection, Listening, Unread
  <2>3. RegistersFirst(link, to_server)
    BY <2>2 DEF SystemInv, LinkInv, SocketsRegister
  <2>4. PICK request \in Meant(Head(to_server)) : Read(link, request)
    BY <1>2 DEF ReadClient
  <2>5. /\ request \in Request /\ request.type \in RequestTypes
        /\ Receive(link, request)
    BY <2>1, <2>3, <2>4, FirstRegisters, MeantTypes DEF Receive
  <2> QED  BY <2>1, <2>5 DEF Next
<1>3. ASSUME NEW id \in Ids, ReadLeftover(id)
      PROVE  [Next]_vars
  <2>1. leftover[id] # <<>> /\ leftover[id] \in Seq(Client!Request)
    BY <1>3 DEF ReadLeftover, SystemInv, LinkInv, Connection
  <2>2. RegistersFirst(id, leftover[id])
    BY DEF SystemInv, LinkInv, SocketsRegister
  <2>3. PICK request \in Meant(Head(leftover[id])) : Read(id, request)
    BY <1>3 DEF ReadLeftover
  <2>4. /\ request \in Request /\ request.type \in RequestTypes
        /\ Receive(id, request)
    BY <2>1, <2>2, <2>3, FirstRegisters, MeantTypes DEF Receive
  <2> QED  BY <2>4 DEF Next
<1>4. ASSUME NEW id \in Ids, NEW request \in Request, ReadPeer(id, request)
      PROVE  [Next]_vars
  <2>1. request.type \in RequestTypes /\ Receive(id, request)
    BY <1>4, ChatSystemAssumption DEF ReadPeer
  <2> QED  BY <2>1 DEF Next
<1>5. ASSUME NEW id \in Ids, WriteReply(id) \/ WriteMessage(id) \/ Closes(id)
      PROVE  [Next]_vars
  BY <1>5 DEF WriteReply, WriteMessage, Closes, Next
<1>6. CASE ServerAlone
  BY <1>6 DEF ServerAlone, Next
<1> QED
  BY <1>1, <1>2, <1>3, <1>4, <1>5, <1>6
  DEF SystemNext, systemVars, Inside, Branch, Enter, Connect, Lost
----------------------------------------------------------------------------
(* Every step of the system is a step of the client's specification.       *)

(* A handler's answer suits the request it serves.                         *)
LEMMA ServeSuits ==
  ASSUME IInv, ViewInv, Serve, ~IsDrop(Head(rx)), NEW peer \in Ids, peer = Head(rx).id,
         reply'[peer] # NoReply
  PROVE  Suits(peer, Head(rx).request, reply'[peer])
<1> DEFINE r == Head(rx).request
<1>1. /\ reply[peer] = NoReply /\ conn[peer] = "waiting" /\ r.type # "DropSession"
      /\ peer \in sessions
  BY ServedWaits, HeadServed
<1>2. reply \in [Ids -> Reply]  BY DEF IInv, TypeOK, ChannelTypeOK
<1>3. ASSUME NEW m, Answer(peer, m)
      PROVE  reply'[peer] = m
  BY <1>2, <1>3 DEF Answer
<1>4. CASE r.type = "Register" /\ Register(peer, r.arg)
  BY <1>1, <1>3, <1>4 DEF Register, Suits
<1>5. CASE r.type = "ChangeName" /\ ChangeName(peer, r.arg)
  <2>1. view[peer].name = id_to_username[peer]
    <3>1. Known(peer) /\ view[peer] \in View
      BY <1>1 DEF ViewInv, IInv, TypeOK, HistoryTypeOK, View
    <3> QED  BY <1>1, <3>1, ToldNothing DEF Known, After
  <2>2. \/ Answer(peer, Failed("ChangeName"))
        \/ id_to_username[peer] # NoName /\ Answer(peer, Answered("ChangedName", r.arg))
        \/ UNCHANGED reply
    BY <1>1, <1>5 DEF ChangeName, Panic
  <2> QED  BY <1>1, <1>3, <1>5, <2>1, <2>2 DEF Suits
<1>6. ASSUME r.type \notin {"Register", "ChangeName"},
             \/ Answer(peer, Failed(r.type)) \/ UNCHANGED reply
             \/ \E t \in {"OutgoingMsg", "Listing", "CreatedRoom", "Joined", "LeftRoom",
                          "MessagedRoom"} : \E a : Answer(peer, Answered(t, a))
      PROVE  Suits(peer, r, reply'[peer])
  <2>1. \A t, a : Answered(t, a).type = t  BY DEF Answered
  <2> QED  BY <1>1, <1>3, <1>6, <2>1 DEF Suits
<1>7. CASE r.type = "PrivMsg" /\ PrivMsg(peer, r.arg)
  BY <1>6, <1>7 DEF PrivMsg, Panic
<1>8. CASE r.type = "List" /\ List(peer, r.arg)
  BY <1>1, <1>6, <1>8 DEF List
<1>9. CASE r.type = "Create" /\ CreateRoom(peer, r.arg)
  BY <1>6, <1>9 DEF CreateRoom
<1>10. CASE r.type = "Join" /\ JoinRoom(peer, r.arg)
  BY <1>1, <1>6, <1>10 DEF JoinRoom
<1>11. CASE r.type = "Leave" /\ LeaveRoom(peer, r.arg)
  BY <1>1, <1>6, <1>11 DEF LeaveRoom
<1>12. CASE r.type = "SendTo" /\ SendTo(peer, r.arg)
  BY <1>1, <1>6, <1>12 DEF SendTo
<1> QED
  BY <1>1, ServeCases, <1>4, <1>5, <1>7, <1>8, <1>9, <1>10, <1>11, <1>12

(* The bytes of an answer that suits a request are one of the messages     *)
(* that the client expects of a server that has this name for it.          *)
LEMMA WrittenAnswers ==
  ASSUME NEW r \in Client!Request, NEW request \in Meant(r), NEW id, view[id] \in View,
         server_name = view[id].name, NEW m, Suits(id, request, m)
  PROVE  \E a \in Client!Answers(r) :
           /\ Written(m) = <<a>>
           /\ Told(view[id], m).name =
                IF a.type \in {"Registered", "ChangedName"} THEN a.name ELSE server_name
<1>1. /\ request.type = "Register" <=> r.type = "Register"
      /\ request.type = "ChangeName" <=> r.type = "ChangeName"
      /\ r.type \in {"Register", "ChangeName"} => request.arg = r.name
  BY MeantTypes
<1>2. \A t : Failed(t) = [type |-> "Failed", arg |-> t] /\ Failed(t) # Dropped
  BY ReplyDistinct DEF Failed
<1>3. \A t : /\ Failed(t).type = "Failed"
             /\ Told(view[id], Failed(t)).name = view[id].name
  BY <1>2, ToldNothing
<1>4. CASE m = Answered("Registered", request.arg) /\ request.type = "Register"
  <2> DEFINE a == [type |-> "Registered", name |-> r.name]
  <2>1. a \in Client!Answers(r)  BY <1>1, <1>4 DEF Client!Answers
  <2>2. m.type = "Registered" /\ m.arg = r.name /\ m # Dropped
    BY <1>1, <1>4, ReplyDistinct DEF Answered
  <2>3. Written(m) = <<a>>  BY <2>2 DEF Written
  <2>4. Told(view[id], m).name = r.name  BY <2>2, ToldFacts
  <2> QED  BY <2>1, <2>3, <2>4
<1>5. CASE /\ m = Answered("ChangedName", request.arg) /\ request.type = "ChangeName"
           /\ view[id].name # NoName
  <2> DEFINE a == [type |-> "ChangedName", name |-> r.name]
  <2>1. a \in Client!Answers(r)  BY <1>1, <1>5 DEF Client!Answers
  <2>2. m.type = "ChangedName" /\ m.arg = r.name /\ m # Dropped
    BY <1>1, <1>5, ReplyDistinct DEF Answered
  <2>3. Written(m) = <<a>>  BY <2>2 DEF Written
  <2>4. Told(view[id], m).name = r.name  BY <2>2, ToldFacts
  <2> QED  BY <2>1, <2>3, <2>4
<1>6. CASE m = Failed(request.type)
  <2> DEFINE a == [type |-> "Failed",
                   cmd |-> IF request.type = "Register" THEN "register" ELSE "other"]
  <2>1. a \in Client!Answers(r)  BY <1>1 DEF Client!Answers
  <2>2. m.type = "Failed" /\ m.arg = request.type /\ m # Dropped  BY <1>2, <1>6
  <2>3. Written(m) = <<a>>  BY <2>2 DEF Written
  <2> QED  BY <1>3, <1>6, <2>1, <2>3
<1>7. CASE /\ request.type \notin {"Register", "ChangeName"}
           /\ m.type \in {"OutgoingMsg", "Listing", "CreatedRoom", "Joined", "LeftRoom",
                          "MessagedRoom"}
  <2> DEFINE a == [type |-> IF m.type = "MessagedRoom" THEN "MessagedRoom" ELSE "Text"]
  <2>1. a \in Client!Answers(r)  BY <1>1, <1>7 DEF Client!Answers
  <2>2. m # Dropped  BY <1>7 DEF Dropped
  <2>3. Written(m) = <<a>>  BY <1>7, <2>2 DEF Written
  <2>4. Told(view[id], m).name = view[id].name  BY <1>7, ToldFacts
  <2> QED  BY <2>1, <2>3, <2>4
<1> QED  BY <1>4, <1>5, <1>6, <1>7 DEF Suits

(* Every answer that the client hears is one that ChatClient expects; the  *)
(* steps of the server that it cannot hear are no steps of it.             *)
LEMMA ClientStep ==
  ASSUME SystemInv, [SystemNext]_systemVars
  PROVE  [Client!Next]_(Client!vars)
<1>1. CASE UNCHANGED clientVars
  BY <1>1 DEF clientVars, Client!vars, Client!taskVars, Client!tuiVars, Client!socketVars
<1>2. CASE Inside \/ Branch \/ Lost \/ \E id \in Ids : Connect(id)
  BY <1>2 DEF Inside, Branch, Lost, Connect, Client!Next
<1>3. ASSUME NEW action \in Commands, Enter(action)
      PROVE  [Client!Next]_(Client!vars)
  BY <1>3, ChatSystemAssumption DEF Enter, Client!Next
<1>4. ASSUME NEW id \in Ids, WriteReply(id)
      PROVE  [Client!Next]_(Client!vars)
  <2>1. CASE ~Listening(id)
    BY <1>1, <1>4, <2>1 DEF WriteReply, socketFrame, clientVars
  <2>2. CASE Listening(id)
    <3>1. /\ id = link /\ stream = "open" /\ conn[link] = "waiting" /\ reply[link] # NoReply
          /\ Listening(link)
      BY <1>4, <2>2 DEF WriteReply, TakeReply, Listening
    <3>2. /\ to_server # <<>>
          /\ \E request \in Meant(Head(to_server)) : Suits(link, request, reply[link])
          /\ server_name = view[link].name
      BY <3>1 DEF SystemInv, LinkInv, Outstanding, NameTold
    <3>3. Head(to_server) \in Client!Request /\ view[link] \in View
      BY <3>1, <3>2, SystemTypes
    <3>4. PICK a \in Client!Answers(Head(to_server)) :
            /\ Written(reply[link]) = <<a>>
            /\ Told(view[link], reply[link]).name =
                 IF a.type \in {"Registered", "ChangedName"} THEN a.name ELSE server_name
      BY <3>2, <3>3, WrittenAnswers
    <3>5. /\ to_server' = Tail(to_server)
          /\ from_server' = from_server \o <<a>>
          /\ server_name' = view'[link].name
          /\ UNCHANGED <<socketFrame, pushed>>
      BY <1>4, <2>2, <3>1, <3>4 DEF WriteReply
    <3>6. from_server' = Append(from_server, a)
      BY <3>5 DEF SystemInv, Proved!IInv, Proved!TypeOK
    <3>7. view'[link] = Told(view[link], reply[link])
      BY <1>4, <3>1, SystemTypes DEF WriteReply, TakeReply
    <3>8. Client!ServerAnswers
      BY <3>1, <3>2, <3>4, <3>5, <3>6, <3>7
      DEF Client!ServerAnswers, Client!taskVars, Client!tuiVars, socketFrame
    <3> QED  BY <3>8 DEF Client!Next
  <2> QED  BY <2>1, <2>2
<1>5. ASSUME NEW id \in Ids, WriteMessage(id)
      PROVE  [Client!Next]_(Client!vars)
  <2>1. CASE ~Listening(id)
    BY <1>1, <1>5, <2>1 DEF WriteMessage, socketFrame, clientVars
  <2>2. CASE Listening(id)
    <3>1. Client!ServerPushes
      BY <1>5, <2>2
      DEF WriteMessage, Listening, socketFrame, Client!ServerPushes, Client!taskVars,
          Client!tuiVars
    <3> QED  BY <3>1 DEF Client!Next
  <2> QED  BY <2>1, <2>2
<1> QED
  BY <1>1, <1>2, <1>3, <1>4, <1>5
  DEF SystemNext, systemVars, ReadClient, ReadLeftover, ReadPeer, Closes, ServerAlone

----------------------------------------------------------------------------
(* The invariant is preserved. Each component's is, by its own proof.      *)

(* The parts of the invariant that belong to one component.                *)
LEMMA ComponentsStep ==
  ASSUME SystemInv, [SystemNext]_systemVars
  PROVE  IInv' /\ ViewInv' /\ Proved!IInv'
<1>1. [Next]_vars  BY ServerStep
<1>2. IInv'  BY <1>1, IInvStep DEF SystemInv
<1>3. ViewInv'
  <2>1. CASE UNCHANGED vars
    BY <2>1 DEF SystemInv, vars, nameVars, roomVars, history, ViewInv, AnswerAwaited, Known,
                After
  <2> QED  BY <1>1, <2>1, ViewInvStep DEF SystemInv
<1>4. Proved!IInv'
  <2>1. [Proved!Next]_(Proved!vars)  BY ClientStep, SameClient
  <2> QED  BY <2>1, ClientConstants, Proved!IInvStep DEF SystemInv
<1> QED  BY <1>2, <1>3, <1>4

socket == <<connection_handle, to_server, from_server, stream, server_name>>
service == <<conn, asked, rx, reply, view>>

(* Most steps of the client and of the server touch nothing of it.         *)
LEMMA LinkFrame ==
  ASSUME LinkInv, UNCHANGED <<socket, linkVars, service>>, Registering' = Registering
  PROVE  LinkInv'
<1> USE DEF LinkInv, socket, linkVars, service
<1>1. Connection' /\ FreshSocket'  BY DEF Connection, FreshSocket
<1>2. SocketsRegister'  BY DEF SocketsRegister, RegistersFirst, Listening, Unread
<1>3. Outstanding'  BY DEF Outstanding, Listening, Meant, Suits
<1>4. NameTold'  BY DEF NameTold, Listening
<1> QED  BY <1>1, <1>2, <1>3, <1>4

(* What a client that drops its socket leaves in it.                       *)
LEMMA UnreadFacts ==
  ASSUME SystemInv, connection_handle
  PROVE  /\ Unread \in Seq(Client!Request)
         /\ RegistersFirst(link, Unread)
<1>1. to_server \in Seq(Client!Request) /\ link \in Ids  BY SystemTypes
<1>2. CASE stream = "open"
  <2>1. Listening(link)  BY <1>2 DEF Listening
  <2>2. conn[link] = "waiting" => to_server # <<>>
    BY <2>1 DEF SystemInv, LinkInv, Outstanding
  <2> QED  BY <1>1, <2>1, <2>2 DEF Unread, SystemInv, LinkInv, SocketsRegister
<1>3. CASE stream # "open"
  <2>1. Unread = <<>>  BY <1>3 DEF Unread, SystemInv, LinkInv, Connection
  <2> QED  BY <2>1 DEF RegistersFirst
<1> QED  BY <1>2, <1>3

(* What the client does to its socket, unless it is connecting: it drops   *)
(* it, sends no registration, takes a message that is no refusal of one,   *)
(* or meets the socket's end.                                              *)
LEMMA SocketSteps ==
  ASSUME SystemInv, Inside \/ Branch, ~Client!Registered
  PROVE  /\ HangUp /\ UNCHANGED <<vars, mine>>
         /\ \/ ~connection_handle'
            \/ /\ connection_handle /\ connection_handle' /\ server_name' = server_name
               /\ \/ UNCHANGED <<to_server, from_server, stream>>
                  \/ /\ UNCHANGED <<from_server, stream>>
                     /\ \E r \in Client!Request :
                          /\ r.type # "Register"
                          /\ to_server' = IF stream = "open" THEN Append(to_server, r)
                                          ELSE to_server
                  \/ /\ UNCHANGED <<to_server, stream>>
                     /\ from_server # <<>>
                     /\ ~Client!Refused(Head(from_server))
                     /\ from_server' = Tail(from_server)
                  \/ /\ UNCHANGED <<to_server, from_server>>
                     /\ stream = "reset" /\ stream' = "end"
<1> USE DEF Client!taskVars, Client!tuiVars, Client!socketVars, Client!branchFrame
<1> DEFINE Kept == /\ UNCHANGED <<to_server, from_server, stream, server_name>>
                   /\ connection_handle' = connection_handle
<1>1. HangUp /\ UNCHANGED <<vars, mine>> /\ connection_handle \in BOOLEAN
  BY SystemTypes DEF Inside, Branch
<1>2. CASE Client!Updated \/ Client!Top \/ Client!TakeEnd
  <2>1. Kept \/ ~connection_handle'
    BY <1>2 DEF Client!Updated, Client!Top, Client!TakeEnd, Client!DropConnection
  <2> QED  BY <1>1, <2>1
<1>3. CASE \/ Client!TuiSetup \/ Client!Update \/ Client!Quit \/ Client!DisconnectedAction
           \/ Client!NotConnected \/ Client!ShutdownBranch \/ Client!TuiShutdown
  <2>1. Kept
    BY <1>3
    DEF Client!TuiSetup, Client!Update, Client!Quit, Client!DisconnectedAction,
        Client!NotConnected, Client!ShutdownBranch, Client!TuiShutdown
  <2> QED  BY <1>1, <2>1
<1>4. CASE Client!TakeMessage
  BY <1>1, <1>4 DEF Client!TakeMessage, Client!DropConnection
<1>5. CASE Client!TakeReset
  BY <1>1, <1>5 DEF Client!TakeReset
<1>6. CASE Client!ConnectedAction
  <2>1. PICK a \in (Client!Action \cup {Client!NoAction}) \ [type : {"Quit"}] :
          \/ a.type = "SetName" /\ Client!ChangeName(a.name)
          \/ a.type = "PrivMsg" /\ Client!PrivMsg(a.name)
          \/ a.type = "Ask" /\ Client!Ask
          \/ a.type = "Disconnect" /\ Client!Disconnect
          \/ UNCHANGED <<connection_handle, to_server, from_server, stream, server_name>>
    BY <1>6 DEF Client!ConnectedAction
  <2>2. connection_handle  BY <1>6 DEF Client!ConnectedAction
  <2>3. a.type \in {"SetName", "PrivMsg"} => a.name \in Names
    BY DEF Client!Action, Client!NoAction
  <2>4. ASSUME NEW r \in Client!Request, r.type # "Register", Client!Send(r),
               UNCHANGED connection_handle
        PROVE  /\ connection_handle' /\ server_name' = server_name
               /\ UNCHANGED <<from_server, stream>>
               /\ \E q \in Client!Request :
                    /\ q.type # "Register"
                    /\ to_server' = IF stream = "open" THEN Append(to_server, q)
                                    ELSE to_server
    BY <2>2, <2>4 DEF Client!Send
  <2>5. CASE a.type = "SetName" /\ Client!ChangeName(a.name)
    <3>1. [type |-> "ChangeName", name |-> a.name] \in Client!Request
      BY <2>3, <2>5 DEF Client!Request
    <3> QED  BY <1>1, <2>2, <2>4, <2>5, <3>1 DEF Client!ChangeName
  <2>6. CASE a.type = "PrivMsg" /\ Client!PrivMsg(a.name)
    <3>1. [type |-> "PrivMsg", name |-> a.name] \in Client!Request
      BY <2>3, <2>6 DEF Client!Request
    <3> QED  BY <1>1, <2>2, <2>4, <2>6, <3>1 DEF Client!PrivMsg
  <2>7. CASE a.type = "Ask" /\ Client!Ask
    <3>1. [type |-> "Ask"] \in Client!Request  BY DEF Client!Request
    <3> QED  BY <1>1, <2>2, <2>4, <2>7, <3>1 DEF Client!Ask
  <2>8. CASE a.type = "Disconnect" /\ Client!Disconnect
    BY <1>1, <2>8 DEF Client!Disconnect, Client!DropConnection
  <2>9. CASE UNCHANGED <<connection_handle, to_server, from_server, stream, server_name>>
    BY <1>1, <2>2, <2>9
  <2> QED  BY <2>1, <2>5, <2>6, <2>7, <2>8, <2>9
<1> QED
  BY <1>2, <1>3, <1>4, <1>5, <1>6 DEF Inside, Branch, Client!TakeAction

(* Until the registration is sent the client leaves its socket alone.      *)
LEMMA RegisteringSteps ==
  ASSUME Inside \/ Branch, ~Client!Registered
  PROVE  UNCHANGED <<state_task, socket>> \/ ~(Registering \/ Registering')
<1> USE DEF Registering
<1>1. CASE Client!Updated \/ Client!Top
  BY <1>1 DEF Client!Updated, Client!Top
<1>2. CASE Client!TuiSetup \/ Client!Update
  BY <1>2
  DEF Client!TuiSetup, Client!Update, Client!taskVars, Client!socketVars, socket
<1>3. CASE Client!TakeAction
  BY <1>3
  DEF Client!TakeAction, Client!Quit, Client!ConnectedAction, Client!DisconnectedAction,
      Client!Receive
<1>4. CASE Branch
  BY <1>4
  DEF Branch, Settled, Client!TakeMessage, Client!TakeReset, Client!TakeEnd,
      Client!NotConnected, Client!ShutdownBranch, Client!TuiShutdown, Client!taskVars
<1> QED  BY <1>1, <1>2, <1>3, <1>4 DEF Inside

(* Requests that are no registrations may follow those that are there.     *)
LEMMA SendInOrder ==
  ASSUME NEW q \in Seq(Client!Request), NEW r \in Client!Request, r.type # "Register",
         NEW id, RegistersFirst(id, q), id \notin asked => q # <<>>
  PROVE  RegistersFirst(id, Append(q, r)) /\ Append(q, r) # <<>>
<1>1. PICK n \in Nat : n = Len(q)  OBVIOUS
<1>2. /\ DOMAIN q = 1 .. n /\ DOMAIN Append(q, r) = 1 .. n + 1
      /\ \A k \in 1 .. n : Append(q, r)[k] = q[k]
      /\ Append(q, r)[n + 1] = r
      /\ n = 0 => q = <<>>
  BY <1>1
<1>3. ASSUME NEW k \in 1 .. n + 1
      PROVE  Append(q, r)[k].type = "Register" <=> (k = 1 /\ id \notin asked)
  <2>1. CASE k \in 1 .. n
    BY <1>2, <2>1 DEF RegistersFirst
  <2>2. CASE k = n + 1
    BY <1>2, <2>2
  <2> QED  BY <1>1, <2>1, <2>2
<1> QED  BY <1>2, <1>3 DEF RegistersFirst

(* LinkInv is preserved by the client, unless it connects.                 *)
LEMMA InsideStep ==
  ASSUME SystemInv, Inside \/ Branch, ~Client!Registered, Proved!TypeOK',
         ~(Registering \/ Registering')
  PROVE  LinkInv'
<1>1. /\ HangUp /\ mine' = mine
      /\ UNCHANGED service
      /\ connection_handle \in BOOLEAN
  BY SocketSteps, SystemTypes DEF vars, history, loopVars, service
<1>2. /\ to_server \in Seq(Client!Request)
      /\ leftover \in [Ids -> Seq(Client!Request)]
      /\ \A id \in Ids : RegistersFirst(id, leftover[id])
  BY SystemTypes DEF SystemInv, LinkInv, Connection, SocketsRegister
<1>3. CASE ~connection_handle'
  <2>1. to_server' = <<>> /\ ~Listening(link)'
    BY <1>3 DEF Proved!TypeOK, Listening
  <2>2. /\ link' = NoId /\ leftover' \in [Ids -> Seq(Client!Request)]
        /\ \A id \in Ids : leftover'[id] # <<>> => id \in mine
        /\ \A id \in Ids : RegistersFirst(id, leftover'[id])
    <3>1. CASE connection_handle
      <4>1. link' = NoId /\ leftover' = [leftover EXCEPT ![link] = Unread]
        BY <1>1, <1>3, <3>1 DEF HangUp
      <4>2. Unread \in Seq(Client!Request) /\ RegistersFirst(link, Unread)
        BY <3>1, UnreadFacts
      <4>3. link \in mine  BY <3>1 DEF SystemInv, LinkInv, Connection
      <4> QED  BY <1>2, <4>1, <4>2, <4>3 DEF SystemInv, LinkInv, Connection
    <3>2. CASE ~connection_handle
      BY <1>1, <1>2, <3>2 DEF HangUp, SystemInv, LinkInv, Connection
    <3> QED  BY <3>1, <3>2
  <2>3. Connection' /\ FreshSocket'
    BY <1>1, <1>3, <2>1, <2>2 DEF Connection, FreshSocket, SystemInv, LinkInv
  <2>4. SocketsRegister'
    BY <1>1, <2>1, <2>2 DEF SocketsRegister, RegistersFirst, service
  <2>5. Outstanding' /\ NameTold'  BY <2>1 DEF Outstanding, NameTold
  <2> QED  BY <2>3, <2>4, <2>5 DEF LinkInv
<1>4. CASE connection_handle /\ connection_handle'
  <2>1. UNCHANGED <<linkVars, connection_handle>>
    BY <1>1, <1>4 DEF HangUp, linkVars
  <2>2. CASE UNCHANGED <<to_server, from_server, stream, server_name>>
    BY <1>1, <2>1, <2>2, LinkFrame DEF SystemInv, socket, Registering
  <2>3. CASE /\ UNCHANGED <<from_server, server_name>>
             /\ stream = "open" /\ stream' = "open"
             /\ \E r \in Client!Request :
                  r.type # "Register" /\ to_server' = Append(to_server, r)
    <3>1. PICK r \in Client!Request :
            r.type # "Register" /\ to_server' = Append(to_server, r)
      BY <2>3
    <3>2. Listening(link) /\ Listening(link)'
      BY <1>4, <2>3 DEF Listening
    <3>3. to_server # <<>> => Head(to_server') = Head(to_server)
      BY <1>2, <3>1
    <3>4. to_server' # <<>>  BY <1>2, <3>1
    <3>5. Connection' /\ FreshSocket'
      BY <1>1, <2>1, <2>3
      DEF Connection, FreshSocket, SystemInv, LinkInv, linkVars, service
    <3>6. Unread' = Append(Unread, r)
      <4>1. conn[link] = "waiting" => to_server # <<>>
        BY <3>2 DEF SystemInv, LinkInv, Outstanding
      <4>2. to_server # <<>> => Tail(Append(to_server, r)) = Append(Tail(to_server), r)
        BY <1>2
      <4> QED  BY <1>1, <2>1, <2>3, <3>1, <4>1, <4>2 DEF Unread, service, linkVars
    <3>7. RegistersFirst(link, Unread') /\ Unread' # <<>>
      BY <1>4, <3>1, <3>2, <3>6, UnreadFacts, SendInOrder
      DEF SystemInv, LinkInv, SocketsRegister
    <3>8. SocketsRegister'
      BY <1>1, <1>2, <2>1, <3>7 DEF SocketsRegister, RegistersFirst, service, linkVars
    <3>9. Outstanding'
      BY <1>1, <2>1, <3>2, <3>3, <3>4
      DEF SystemInv, LinkInv, Outstanding, service, linkVars, Meant, Suits
    <3>10. NameTold'
      BY <1>1, <2>1, <2>3, <3>2, <3>3, <3>4
      DEF SystemInv, LinkInv, NameTold, service, linkVars
    <3> QED  BY <3>5, <3>8, <3>9, <3>10 DEF LinkInv
  <2>4. CASE /\ UNCHANGED <<to_server, stream, server_name>>
             /\ from_server # <<>>
             /\ ~Client!Refused(Head(from_server))
             /\ from_server' = Tail(from_server)
    <3>1. Connection' /\ FreshSocket' /\ SocketsRegister' /\ Outstanding'
      BY <1>1, <2>1, <2>4
      DEF SystemInv, LinkInv, Connection, FreshSocket, SocketsRegister, RegistersFirst, Outstanding,
          Listening, Unread, Meant, Suits, service, linkVars
    <3>2. ASSUME NEW i \in DOMAIN from_server, Client!Refused(from_server[i])
          PROVE  \E j \in DOMAIN from_server' : Client!Refused(from_server'[j])
      <4>1. from_server \in Seq(Proved!Message)
        BY DEF SystemInv, Proved!IInv, Proved!TypeOK
      <4>2. i # 1 /\ i - 1 \in DOMAIN from_server' /\ from_server'[i - 1] = from_server[i]
        BY <2>4, <3>2, <4>1, TailFacts
      <4> QED  BY <3>2, <4>2
    <3>3. NameTold'
      BY <1>1, <2>1, <2>4, <3>2
      DEF SystemInv, LinkInv, NameTold, Listening, service, linkVars, Client!Refused
    <3> QED  BY <3>1, <3>3 DEF LinkInv
  <2>5. CASE /\ UNCHANGED <<to_server, from_server, server_name>>
             /\ stream = "reset" /\ stream' = "end"
    <3>1. to_server = <<>>  BY <2>5 DEF SystemInv, LinkInv, Connection
    <3>2. Connection' /\ FreshSocket'
      BY <1>1, <2>1, <2>5, <3>1
      DEF SystemInv, LinkInv, Connection, FreshSocket, service, linkVars
    <3>3. ~Listening(link)'  BY <2>5 DEF Listening
    <3>4. SocketsRegister'
      BY <1>1, <1>2, <2>1, <3>3 DEF SocketsRegister, RegistersFirst, service, linkVars
    <3>5. Outstanding' /\ NameTold'  BY <3>3 DEF Outstanding, NameTold
    <3> QED  BY <3>2, <3>4, <3>5 DEF LinkInv
  <2> QED
    BY <1>4, <2>1, <2>2, <2>3, <2>4, <2>5, SocketSteps
<1> QED  BY <1>1, <1>3, <1>4, SocketSteps

(* A connection of the client's that is new holds nothing.                 *)
LEMMA ConnectStep ==
  ASSUME SystemInv, NEW id \in Ids, Connect(id), Proved!TypeOK'
  PROVE  LinkInv'
<1> USE DEF SystemInv, LinkInv
<1>1. /\ conn[id] = "select" /\ id \notin asked /\ id \notin mine
      /\ UNCHANGED service
      /\ link' = id /\ mine' = mine \cup {id} /\ leftover' = leftover
      /\ Client!Connected
  BY DEF Connect, vars, history, loopVars, service
<1>2. ~connection_handle /\ connection_handle' /\ Registering'
      /\ UNCHANGED <<to_server, from_server, stream, server_name>>
  BY <1>1
  DEF Client!Connected, Client!socketVars, Registering, Proved!IInv, Proved!Phases
<1>3. stream = "open" /\ server_name = NoName /\ to_server = <<>>
  BY <1>2, SystemTypes
<1>4. leftover[id] = <<>> /\ Unread' = <<>>
  BY <1>1, <1>2, <1>3 DEF Connection, Unread, service
<1>5. Connection'
  BY <1>1, <1>2, <1>3, <1>4 DEF Connection, service
<1>6. SocketsRegister'
  BY <1>1, <1>2, <1>4 DEF SocketsRegister, RegistersFirst, service
<1>7. Outstanding'  BY <1>1 DEF Outstanding, service
<1>8. FreshSocket' /\ NameTold'
  <2>1. view[id].name = NoName
    <3>1. Known(id) /\ reply[id] = NoReply /\ view[id] \in View
      BY <1>1, SystemTypes DEF ViewInv, AnswerAwaited
    <3>2. id_to_username[id] = NoName  BY <1>1 DEF IInv, RegistersOnce
    <3> QED  BY <3>1, <3>2, ToldNothing DEF Known, After
  <2> QED  BY <1>1, <1>2, <1>3, <2>1 DEF FreshSocket, NameTold, service
<1> QED  BY <1>5, <1>6, <1>7, <1>8

(* The first request that the client sends is a registration.              *)
LEMMA RegisteredStep ==
  ASSUME SystemInv, Inside, Client!Registered
  PROVE  LinkInv'
<1> USE DEF SystemInv, LinkInv
<1> DEFINE r == [type |-> "Register", name |-> state.username]
<1>1. /\ Registering /\ ~Registering' /\ Client!Send(r)
      /\ connection_handle' = connection_handle
      /\ HangUp /\ mine' = mine /\ UNCHANGED service
  BY DEF Inside, Client!Registered, Registering, vars, history, loopVars, service
<1>2. /\ connection_handle /\ stream = "open" /\ to_server = <<>>
      /\ conn[link] = "select" /\ link \notin asked /\ view[link].name = NoName
  BY <1>1 DEF FreshSocket
<1>3. /\ to_server' = <<r>> /\ UNCHANGED <<from_server, stream, server_name>>
      /\ UNCHANGED linkVars
  BY <1>1, <1>2 DEF Client!Send, HangUp, linkVars
<1>4. Listening(link) /\ Listening(link)' /\ Unread' = <<r>>
  BY <1>1, <1>2, <1>3 DEF Listening, Unread, service, linkVars
<1>5. Connection' /\ FreshSocket'
  BY <1>1, <1>2, <1>3 DEF Connection, FreshSocket, service, linkVars
<1>6. SocketsRegister'
  <2>1. RegistersFirst(link, <<r>>) /\ <<r>> # <<>>  BY <1>2 DEF RegistersFirst
  <2> QED  BY <1>1, <1>3, <1>4, <2>1 DEF SocketsRegister, RegistersFirst, service, linkVars
<1>7. Outstanding'  BY <1>1, <1>2, <1>3 DEF Outstanding, service, linkVars
<1>8. NameTold'
  BY <1>1, <1>3, <1>4 DEF NameTold, service, linkVars
<1> QED  BY <1>5, <1>6, <1>7, <1>8

(* A socket whose other end is closed asks for nothing.                    *)
LEMMA LostStep ==
  ASSUME SystemInv, Lost
  PROVE  LinkInv'
<1> USE DEF SystemInv, LinkInv
<1>1. /\ stream' = "reset" /\ to_server' = <<>>
      /\ UNCHANGED <<connection_handle, service, linkVars>>
      /\ ~Registering'
  BY DEF Lost, Settled, Registering, Client!ServerCloses, Client!taskVars, vars, history,
         loopVars, service
<1>2. ~Listening(link)'  BY <1>1 DEF Listening
<1>3. Connection' /\ FreshSocket'
  BY <1>1 DEF Connection, FreshSocket, service, linkVars
<1>4. SocketsRegister'
  BY <1>1, <1>2 DEF SocketsRegister, RegistersFirst, service, linkVars
<1>5. Outstanding' /\ NameTold'  BY <1>2 DEF Outstanding, NameTold
<1> QED  BY <1>3, <1>4, <1>5

(* What the server may do without disturbing LinkInv.                      *)
LEMMA ServiceStep ==
  ASSUME SystemInv, Settled, UNCHANGED state_task,
         UNCHANGED <<connection_handle, to_server, stream, server_name, link, mine>>,
         \/ from_server' = from_server
         \/ \E a : ~Client!Refused(a) /\ from_server' = Append(from_server, a),
         leftover' \in [Ids -> Seq(Client!Request)],
         \A id \in Ids : leftover'[id] # <<>> => leftover[id] # <<>>,
         \A id \in Ids : RegistersFirst(id, leftover[id])',
         connection_handle => conn'[link] \in {"select", "waiting", "done"},
         Listening(link) =>
           /\ conn'[link] = "waiting" => conn[link] = "waiting"
           /\ conn[link] = "waiting" => conn'[link] = "waiting"
           /\ view'[link] = view[link]
           /\ link \in asked' <=> link \in asked,
         Listening(link) /\ conn[link] = "waiting" =>
           /\ \A k \in DOMAIN rx' :
                rx'[k].id = link => rx'[k].request \in Meant(Head(to_server))
           /\ reply'[link] # NoReply =>
                \E request \in Meant(Head(to_server)) : Suits(link, request, reply'[link])
  PROVE  LinkInv'
<1> USE DEF SystemInv, LinkInv
<1>1. /\ Listening(link)' <=> Listening(link)
      /\ ~Registering /\ ~Registering'
  BY DEF Listening, Settled, Registering
<1>2. Connection' /\ FreshSocket'
  <2>1. connection_handle => link \in Ids  BY SystemTypes
  <2> QED  BY <1>1, <2>1 DEF Connection, FreshSocket
<1>3. SocketsRegister'
  <2>1. Listening(link) => Unread' = Unread  BY DEF Unread
  <2> QED  BY <1>1, <2>1 DEF SocketsRegister, RegistersFirst
<1>4. Outstanding'
  <2>1. ASSUME Listening(link), conn[link] = "waiting", reply'[link] # NoReply
        PROVE  \E request \in Meant(Head(to_server)) : Suits(link, request, reply[link])'
    BY <2>1 DEF Suits
  <2> QED  BY <1>1, <2>1 DEF Outstanding, Meant
<1>5. NameTold'
  <2>1. ASSUME NEW i \in DOMAIN from_server, Client!Refused(from_server[i])
        PROVE  \E j \in DOMAIN from_server' : Client!Refused(from_server'[j])
    <3>1. from_server \in Seq(Proved!Message)
      BY DEF Proved!IInv, Proved!TypeOK
    <3>2. i \in DOMAIN from_server' /\ from_server'[i] = from_server[i]
      BY <3>1
    <3> QED  BY <2>1, <3>2
  <2> QED  BY <1>1, <2>1 DEF NameTold, Client!Refused
<1> QED  BY <1>2, <1>3, <1>4, <1>5

(* An event of another connection disturbs none of the client's.           *)
LEMMA OthersEvent ==
  ASSUME SystemInv, NEW id \in Ids, NEW e \in Event, e.id = id, rx' = Append(rx, e),
         Listening(link), conn[link] = "waiting", id # link
  PROVE  \A k \in DOMAIN rx' : rx'[k].id = link => rx'[k].request \in Meant(Head(to_server))
<1>1. \A k \in DOMAIN rx' : (k \in DOMAIN rx /\ rx'[k] = rx[k]) \/ rx'[k] = e
  BY SystemTypes
<1> QED  BY <1>1 DEF SystemInv, LinkInv, Outstanding

(* LinkInv is preserved by the server's steps inside itself.               *)
LEMMA AloneStep ==
  ASSUME SystemInv, ServerAlone
  PROVE  LinkInv'
<1> USE DEF SystemInv, LinkInv
<1>1. /\ UNCHANGED <<socket, linkVars, state_task>> /\ Settled
      /\ connection_handle => link \in Ids
      /\ connection_handle => conn[link] \in {"select", "waiting", "done"}
      /\ conn \in [Ids -> ConnState]
      /\ connection_handle \in BOOLEAN
  BY SystemTypes DEF ServerAlone, clientVars, socket, Connection
<1>2. /\ leftover' \in [Ids -> Seq(Client!Request)]
      /\ \A id \in Ids : leftover'[id] # <<>> => leftover[id] # <<>>
  BY <1>1 DEF Connection, linkVars
<1>3. asked' = asked => \A id \in Ids : RegistersFirst(id, leftover[id])'
  BY <1>1 DEF SocketsRegister, RegistersFirst, linkVars
<1>4. Listening(link) => connection_handle  BY DEF Listening
<1>5. ASSUME UNCHANGED <<asked, view, reply, rx>>, NEW id \in Ids,
             \E s : conn' = [conn EXCEPT ![id] = s],
             conn[id] \notin {"select", "waiting", "done"}
      PROVE  LinkInv'
  <2>1. connection_handle => conn'[link] = conn[link]  BY <1>1, <1>5
  <2> QED  BY <1>1, <1>2, <1>3, <1>4, <1>5, <2>1, ServiceStep DEF socket, linkVars, Outstanding
<1>6. ASSUME NEW id \in Ids, EndOfStream(id) \/ ShutdownSignal(id)
      PROVE  LinkInv'
  <2>1. /\ conn[id] = "select" /\ conn' = [conn EXCEPT ![id] = "done"]
        /\ UNCHANGED <<asked, view, reply>>
        /\ rx' = rx \/ rx' = Append(rx, [id |-> id, request |-> DropSessionEvent])
    BY <1>6 DEF EndOfStream, ShutdownSignal, Finish, history
  <2>2. connection_handle => \/ conn'[link] = conn[link]
                             \/ id = link /\ conn[link] = "select" /\ conn'[link] = "done"
    BY <1>1, <2>1
  <2>3. [id |-> id, request |-> DropSessionEvent] \in Event  BY DEF Event
  <2>4. ASSUME Listening(link), conn[link] = "waiting"
        PROVE  \A k \in DOMAIN rx' :
                 rx'[k].id = link => rx'[k].request \in Meant(Head(to_server))
    <3>1. id # link  BY <2>1, <2>4
    <3>2. CASE rx' = rx
      BY <2>4, <3>2 DEF Outstanding
    <3>3. CASE rx' = Append(rx, [id |-> id, request |-> DropSessionEvent])
      BY <2>3, <2>4, <3>1, <3>3, OthersEvent
    <3> QED  BY <2>1, <3>2, <3>3
  <2> QED
    BY <1>1, <1>2, <1>3, <1>4, <2>1, <2>2, <2>4, ServiceStep DEF socket, linkVars, Outstanding
<1>7. CASE Serve
  <2>1. conn' = conn /\ asked' = asked /\ view' = view /\ rx # <<>> /\ rx' = Tail(rx)
    BY <1>7, ServeCases DEF loopVars, history
  <2>2. /\ rx \in Seq(Event) /\ Head(rx) = rx[1] /\ 1 \in DOMAIN rx
        /\ \A k \in DOMAIN rx' : k + 1 \in DOMAIN rx /\ rx'[k] = rx[k + 1]
    BY <2>1, SystemTypes, TailFacts
  <2>3. ASSUME Listening(link), conn[link] = "waiting"
        PROVE  \A k \in DOMAIN rx' :
                 rx'[k].id = link => rx'[k].request \in Meant(Head(to_server))
    BY <2>2, <2>3 DEF Outstanding
  <2>4. ASSUME Listening(link), conn[link] = "waiting", reply'[link] # NoReply
        PROVE  \E request \in Meant(Head(to_server)) : Suits(link, request, reply'[link])
    <3>1. CASE link # Head(rx).id
      <4>1. reply'[link] = reply[link]  BY <1>1, <1>4, <1>7, <2>4, <3>1, ServedWaits
      <4> QED  BY <2>4, <4>1 DEF Outstanding
    <3>2. CASE link = Head(rx).id
      <4>1. ~IsDrop(Head(rx))  BY <1>7, <2>4, <3>2, ServedWaits
      <4>2. Suits(link, Head(rx).request, reply'[link])
        BY <1>1, <1>4, <1>7, <2>4, <3>2, <4>1, ServeSuits
      <4>3. Head(rx).request \in Meant(Head(to_server))
        BY <2>2, <2>4, <3>2 DEF Outstanding
      <4> QED  BY <4>2, <4>3
    <3> QED  BY <3>1, <3>2
  <2> QED
    BY <1>1, <1>2, <1>3, <1>4, <2>1, <2>3, <2>4, ServiceStep DEF socket, linkVars
<1>8. CASE Accept
  <2>1. next_client_id \in Ids /\ conn[next_client_id] = "none"
    BY <1>8 DEF Accept, IInv, Numbered, Ids
  <2> QED  BY <1>5, <1>8, <2>1 DEF Accept, history
<1>9. ASSUME NEW id \in Ids, Handshake(id)
      PROVE  LinkInv'
  BY <1>5, <1>9 DEF Handshake, history
<1>10. CASE UNCHANGED service
  BY <1>1, <1>10, LinkFrame DEF Registering
<1> QED
  BY <1>6, <1>7, <1>8, <1>9, <1>10
  DEF ServerAlone, CtrlC, JoinAll, Forward, ForwardLagged, ForwardAborted, EndAborted,
      forwardFrame, loopVars, history, service

(* Reading takes a registration from a socket only if it is in front.      *)
LEMMA ReadInOrder ==
  ASSUME NEW q \in Seq(Client!Request), q # <<>>, NEW id, RegistersFirst(id, q)
  PROVE  /\ Tail(q) \in Seq(Client!Request)
         /\ \A k \in DOMAIN Tail(q) : Tail(q)[k].type # "Register"
<1>1. PICK n \in Nat : n = Len(q)  OBVIOUS
<1>2. /\ DOMAIN q = 1 .. n /\ DOMAIN Tail(q) = 1 .. n - 1
      /\ \A k \in 1 .. n - 1 : Tail(q)[k] = q[k + 1]
      /\ Tail(q) \in Seq(Client!Request)
  BY <1>1, TailFacts
<1>3. ASSUME NEW k \in 1 .. n - 1
      PROVE  Tail(q)[k].type # "Register"
  <2>1. k + 1 \in DOMAIN q /\ k + 1 # 1  BY <1>1, <1>2
  <2> QED  BY <1>2, <2>1 DEF RegistersFirst
<1> QED  BY <1>2, <1>3

(* The connection task reads the request in front of the client's socket.  *)
LEMMA ReadClientStep ==
  ASSUME SystemInv, ReadClient
  PROVE  LinkInv'
<1> USE DEF SystemInv, LinkInv
<1>1. /\ connection_handle /\ to_server # <<>> /\ conn[link] = "select"
      /\ to_server \in Seq(Client!Request) /\ link \in Ids
      /\ UNCHANGED <<socket, linkVars>>
      /\ ~Registering /\ ~Registering'
  BY SystemTypes DEF ReadClient, Read, clientVars, socket, Settled, Registering
<1>2. PICK request \in Meant(Head(to_server)) : Read(link, request)
  BY DEF ReadClient
<1>3. /\ conn' = [conn EXCEPT ![link] = "waiting"]
      /\ asked' = asked \cup {link}
      /\ rx' = Append(rx, [id |-> link, request |-> request])
      /\ UNCHANGED <<reply, view>>
      /\ server # "crashed"
  BY <1>2 DEF Read, history, Alive
<1>4. /\ Listening(link) /\ Listening(link)'
      /\ Unread = to_server /\ Unread' = Tail(to_server)
      /\ conn'[link] = "waiting"
  <2>1. stream = "open"  BY <1>1, SystemTypes DEF Connection
  <2> QED
    BY <1>1, <1>3, <2>1, SystemTypes DEF Listening, Unread, socket, linkVars
<1>5. RegistersFirst(link, to_server)  BY <1>4 DEF SocketsRegister
<1>6. Connection' /\ FreshSocket'
  BY <1>1, <1>4 DEF Connection, FreshSocket, socket, linkVars
<1>7. SocketsRegister'
  <2>1. RegistersFirst(link, Unread)'
    BY <1>1, <1>3, <1>4, <1>5, ReadInOrder DEF RegistersFirst, linkVars
  <2>2. ASSUME NEW id \in Ids
        PROVE  RegistersFirst(id, leftover[id])'
    <3>1. CASE id = link
      BY <1>1, <3>1 DEF RegistersFirst, Connection, linkVars
    <3>2. CASE id # link
      BY <1>1, <1>3, <3>2 DEF SocketsRegister, RegistersFirst, linkVars
    <3> QED  BY <3>1, <3>2
  <2> QED  BY <1>1, <1>3, <2>1, <2>2 DEF SocketsRegister, linkVars
<1>8. Outstanding'
  <2>1. reply[link] = NoReply  BY <1>1 DEF ViewInv, AnswerAwaited
  <2>2. \A k \in DOMAIN rx : rx[k].id # link
    <3>1. \A k \in DOMAIN rx : conn[rx[k].id] # "select"
      BY <1>3 DEF IInv, RequestAccounted, EventsOfWaiting
    <3> QED  BY <1>1, <3>1
  <2>3. request \in Request
    <3>1. Head(to_server) \in Client!Request  BY <1>1
    <3> QED  BY <1>2, <3>1, MeantTypes
  <2>4. [id |-> link, request |-> request] \in Event  BY <1>1, <2>3 DEF Event
  <2>5. \A k \in DOMAIN rx' :
          \/ k \in DOMAIN rx /\ rx'[k] = rx[k]
          \/ rx'[k] = [id |-> link, request |-> request]
    BY <1>3, <2>4, SystemTypes
  <2> QED
    BY <1>1, <1>2, <1>3, <2>1, <2>2, <2>5 DEF Outstanding, Meant, socket, linkVars
<1>9. NameTold'
  BY <1>1, <1>3, <1>4 DEF NameTold, socket, linkVars, Client!Refused
<1> QED  BY <1>6, <1>7, <1>8, <1>9

(* A request is read from another connection's socket, or from one that    *)
(* the client dropped.                                                     *)
LEMMA ReadOthersStep ==
  ASSUME SystemInv, NEW id \in Ids, NEW request \in Request,
         ReadLeftover(id) \/ ReadPeer(id, request)
  PROVE  LinkInv'
<1> USE DEF SystemInv, LinkInv
<1>1. /\ UNCHANGED <<socket, link, mine, state_task>> /\ Settled
      /\ connection_handle => link \in Ids /\ link \in mine /\ leftover[link] = <<>>
      /\ connection_handle => conn[link] \in {"select", "waiting", "done"}
      /\ conn \in [Ids -> ConnState]
      /\ leftover \in [Ids -> Seq(Client!Request)]
      /\ Listening(link) => connection_handle
  BY SystemTypes
  DEF ReadLeftover, ReadPeer, clientVars, linkVars, socket, Connection, Listening
<1>2. PICK r \in Request : Read(id, r)
  <2>1. ASSUME ReadLeftover(id)
        PROVE  \E r \in Request : Read(id, r)
    <3>1. Head(leftover[id]) \in Client!Request  BY <1>1, <2>1 DEF ReadLeftover
    <3> QED  BY <2>1, <3>1, MeantTypes DEF ReadLeftover
  <2> QED  BY <2>1 DEF ReadPeer, Receive
<1>3. /\ conn' = [conn EXCEPT ![id] = "waiting"]
      /\ asked' = asked \cup {id}
      /\ rx' = Append(rx, [id |-> id, request |-> r])
      /\ UNCHANGED <<reply, view>>
  BY <1>2 DEF Read, history
<1>4. connection_handle => id # link
  <2>1. ReadLeftover(id) => leftover[id] # <<>>  BY DEF ReadLeftover
  <2>2. ReadPeer(id, request) => id \notin mine  BY DEF ReadPeer
  <2> QED  BY <1>1, <2>1, <2>2
<1>5. [id |-> id, request |-> r] \in Event  BY DEF Event
<1>6. connection_handle => conn'[link] = conn[link] /\ (link \in asked' <=> link \in asked)
  BY <1>1, <1>3, <1>4
<1>7. /\ leftover' \in [Ids -> Seq(Client!Request)]
      /\ \A i \in Ids : leftover'[i] # <<>> => leftover[i] # <<>>
      /\ \A i \in Ids : RegistersFirst(i, leftover[i])'
  <2>1. CASE ReadLeftover(id)
    <3>1. leftover[id] # <<>> /\ leftover' = [leftover EXCEPT ![id] = Tail(@)]
      BY <2>1 DEF ReadLeftover
    <3>2. RegistersFirst(id, leftover[id])  BY DEF SocketsRegister
    <3>3. /\ Tail(leftover[id]) \in Seq(Client!Request)
          /\ \A k \in DOMAIN Tail(leftover[id]) : Tail(leftover[id])[k].type # "Register"
      BY <1>1, <3>1, <3>2, ReadInOrder
    <3>4. ASSUME NEW i \in Ids
          PROVE  RegistersFirst(i, leftover[i])'
      <4>1. CASE i = id
        BY <1>1, <1>3, <3>1, <3>3, <4>1 DEF RegistersFirst
      <4>2. CASE i # id
        BY <1>1, <1>3, <3>1, <4>2 DEF RegistersFirst, SocketsRegister
      <4> QED  BY <4>1, <4>2
    <3> QED  BY <1>1, <3>1, <3>3, <3>4
  <2>2. CASE ReadPeer(id, request)
    <3>1. leftover' = leftover /\ leftover[id] = <<>>
      BY <2>2 DEF ReadPeer, linkVars, Connection
    <3> QED  BY <1>1, <1>3, <3>1 DEF RegistersFirst, SocketsRegister
  <2> QED  BY <2>1, <2>2
<1>8. ASSUME Listening(link), conn[link] = "waiting"
      PROVE  \A k \in DOMAIN rx' :
               rx'[k].id = link => rx'[k].request \in Meant(Head(to_server))
  BY <1>1, <1>3, <1>4, <1>5, <1>8, OthersEvent
<1> QED
  BY <1>1, <1>3, <1>6, <1>7, <1>8, ServiceStep DEF socket, Outstanding

(* An answer is written to the client that listens.                        *)
LEMMA WriteReplyStep ==
  ASSUME SystemInv, NEW id \in Ids, WriteReply(id)
  PROVE  LinkInv'
<1> USE DEF SystemInv, LinkInv
<1>1. /\ conn[id] = "waiting" /\ reply[id] # NoReply
      /\ conn' = [conn EXCEPT ![id] = "select"]
      /\ reply' = [reply EXCEPT ![id] = NoReply]
      /\ view' = [view EXCEPT ![id] = Told(@, reply[id])]
      /\ UNCHANGED <<asked, rx, linkVars, connection_handle, stream, state_task>>
      /\ Settled /\ ~Registering /\ ~Registering'
  BY DEF WriteReply, TakeReply, socketFrame, Settled, Registering
<1>2. /\ connection_handle => link \in Ids
      /\ connection_handle => conn[link] \in {"select", "waiting", "done"}
      /\ conn \in [Ids -> ConnState] /\ reply \in [Ids -> Reply] /\ view \in [Ids -> View]
      /\ connection_handle \in BOOLEAN
  BY SystemTypes DEF Connection
<1>3. CASE Listening(id)
  <2>1. /\ id = link /\ Listening(link) /\ Listening(link)' /\ conn'[link] = "select"
        /\ to_server' = Tail(to_server)
        /\ from_server' = from_server \o Written(reply[link])
        /\ server_name' = view'[link].name
        /\ view'[link] = Told(view[link], reply[link])
        /\ stream = "open"
    BY <1>1, <1>2, <1>3 DEF WriteReply, Listening, linkVars
  <2>2. /\ to_server # <<>> /\ link \in asked
        /\ to_server \in Seq(Client!Request) /\ from_server \in Seq(Proved!Message)
        /\ server_name = view[link].name /\ view[link] \in View
    BY <1>1, <1>2, <2>1, SystemTypes
    DEF Outstanding, NameTold, Listening, Proved!IInv, Proved!TypeOK
  <2>3. PICK r \in Client!Request : r = Head(to_server)  BY <2>2
  <2>4. PICK request \in Meant(r) : Suits(link, request, reply[link])
    BY <1>1, <2>1, <2>3 DEF Outstanding
  <2>5. PICK a \in Client!Answers(r) :
          /\ Written(reply[link]) = <<a>>
          /\ Told(view[link], reply[link]).name =
               IF a.type \in {"Registered", "ChangedName"} THEN a.name ELSE server_name
    BY <2>2, <2>3, <2>4, WrittenAnswers
  <2>6. from_server' = Append(from_server, a)  BY <2>1, <2>2, <2>5
  <2>7. Connection' /\ FreshSocket'
    BY <1>1, <1>2, <2>1, <2>2 DEF Connection, FreshSocket, linkVars
  <2>8. SocketsRegister'
    <3>1. Unread = Tail(to_server) /\ Unread' = Tail(to_server)
      BY <1>1, <2>1 DEF Unread, linkVars
    <3> QED
      BY <1>1, <2>1, <2>2, <3>1 DEF SocketsRegister, RegistersFirst, linkVars
  <2>9. Outstanding'  BY <1>1, <2>1 DEF Outstanding, linkVars
  <2>10. NameTold'
    <3>1. ASSUME view'[link].name = NoName
          PROVE  \E i \in DOMAIN from_server' : Client!Refused(from_server'[i])
      <4>1. PICK n \in Nat : n = Len(from_server)  BY <2>2
      <4>2. /\ n + 1 \in DOMAIN from_server' /\ from_server'[n + 1] = a
            /\ \A i \in DOMAIN from_server :
                 i \in DOMAIN from_server' /\ from_server'[i] = from_server[i]
        BY <2>2, <2>6, <4>1
      <4>3. CASE r.type = "Register"
        <5>1. r.name \in Names  BY <4>3 DEF Client!Request
        <5>2. \/ a = [type |-> "Registered", name |-> r.name]
              \/ a = [type |-> "Failed", cmd |-> "register"]
          BY <2>5, <4>3 DEF Client!Answers
        <5>3. a # [type |-> "Registered", name |-> r.name]
          BY <2>1, <2>5, <3>1, <5>1, ServerAssumption
        <5> QED  BY <4>2, <5>2, <5>3 DEF Client!Refused
      <4>4. CASE r.type # "Register"
        <5>1. a.type \in {"Registered", "ChangedName"} =>
                r.type = "ChangeName" /\ a.name = r.name
          BY <2>5, <4>4 DEF Client!Answers
        <5>2. r.type = "ChangeName" => r.name \in Names  BY DEF Client!Request
        <5>3. view[link].name = NoName
          BY <2>1, <2>2, <2>5, <3>1, <5>1, <5>2, ServerAssumption
        <5> QED  BY <1>1, <2>1, <2>3, <4>2, <4>4, <5>3 DEF NameTold
      <4> QED  BY <4>3, <4>4
    <3> QED  BY <1>1, <2>1, <3>1 DEF NameTold, linkVars, Client!Refused
  <2> QED  BY <2>7, <2>8, <2>9, <2>10
<1>4. CASE ~Listening(id)
  <2>1. UNCHANGED <<to_server, from_server, server_name>>
    BY <1>4 DEF WriteReply
  <2>2. Listening(link) => id # link /\ connection_handle
    BY <1>4 DEF Listening
  <2>3. Listening(link) => /\ conn'[link] = conn[link] /\ reply'[link] = reply[link]
                           /\ view'[link] = view[link]
    BY <1>1, <1>2, <2>2
  <2>4. connection_handle => conn'[link] \in {"select", "waiting", "done"}
    BY <1>1, <1>2
  <2>5. /\ leftover' \in [Ids -> Seq(Client!Request)]
        /\ \A i \in Ids : leftover'[i] # <<>> => leftover[i] # <<>>
        /\ \A i \in Ids : RegistersFirst(i, leftover[i])'
    BY <1>1 DEF Connection, SocketsRegister, RegistersFirst, linkVars
  <2> QED
    BY <1>1, <2>1, <2>3, <2>4, <2>5, ServiceStep DEF linkVars, Outstanding
<1> QED  BY <1>3, <1>4

(* Messages that nobody asked for say nothing of a name; nor does the end  *)
(* of a connection.                                                        *)
LEMMA WriteOtherStep ==
  ASSUME SystemInv, NEW id \in Ids, WriteMessage(id) \/ Closes(id)
  PROVE  LinkInv'
<1> USE DEF SystemInv, LinkInv
<1>1. /\ UNCHANGED <<connection_handle, to_server, stream, server_name, link, mine>>
      /\ UNCHANGED service /\ UNCHANGED state_task /\ Settled
      /\ \A i \in Ids : leftover'[i] = leftover[i] \/ leftover'[i] = <<>>
      /\ leftover' \in [Ids -> Seq(Client!Request)]
  <2>1. CASE WriteMessage(id)
    BY <2>1
    DEF WriteMessage, Deliver, socketFrame, linkVars, service, taskFrame, Connection
  <2>2. CASE Closes(id)
    <3>1. /\ leftover' = [leftover EXCEPT ![id] = <<>>]
          /\ UNCHANGED <<clientVars, link, mine>> /\ Settled
      BY <2>2 DEF Closes
    <3>2. leftover \in [Ids -> Seq(Client!Request)]  BY DEF Connection
    <3>3. UNCHANGED service  BY <2>2 DEF Closes, PeerCloses, history, service
    <3> QED  BY <3>1, <3>2, <3>3 DEF clientVars
  <2> QED  BY <2>1, <2>2
<1>2. \/ from_server' = from_server
      \/ \E a : ~Client!Refused(a) /\ from_server' = Append(from_server, a)
  <2>1. ~Client!Refused([type |-> "Text"])  BY DEF Client!Refused
  <2> QED  BY <2>1 DEF WriteMessage, Closes, clientVars
<1>3. \A i \in Ids : RegistersFirst(i, leftover[i])'
  BY <1>1 DEF SocketsRegister, RegistersFirst, service
<1>4. connection_handle => conn'[link] \in {"select", "waiting", "done"}
  BY <1>1 DEF Connection, service
<1> QED
  BY <1>1, <1>2, <1>3, <1>4, ServiceStep DEF service, Outstanding

----------------------------------------------------------------------------
(* The invariant and the theorems.                                         *)

(* The invariant holds at first.                                           *)
LEMMA SystemInvInit == SystemInit => SystemInv
<1> SUFFICES ASSUME SystemInit PROVE SystemInv  OBVIOUS
<1>1. IInv /\ ViewInv  BY IInvInit, ViewInvInit DEF SystemInit
<1>2. /\ Proved!Init /\ ~connection_handle /\ stream = "open" /\ to_server = <<>>
      /\ ~Registering
  BY SameClient DEF SystemInit, Client!Init, Registering
<1>3. Proved!IInv  BY <1>2, ClientConstants, Proved!IInvInit
<1>4. Connection /\ FreshSocket  BY <1>2 DEF SystemInit, Connection, FreshSocket
<1>5. SocketsRegister /\ Outstanding /\ NameTold
  BY <1>2
  DEF SystemInit, SocketsRegister, RegistersFirst, Outstanding, NameTold, Listening
<1> QED  BY <1>1, <1>3, <1>4, <1>5 DEF SystemInv, LinkInv

(* The invariant is preserved.                                             *)
LEMMA SystemInvStep ==
  ASSUME SystemInv, [SystemNext]_systemVars
  PROVE  SystemInv'
<1>1. IInv' /\ ViewInv' /\ Proved!IInv' /\ Proved!TypeOK'
  BY ComponentsStep DEF Proved!IInv
<1>2. LinkInv'
  <2>1. CASE Inside \/ Branch
    <3>1. CASE Inside /\ Client!Registered
      BY <3>1, RegisteredStep
    <3>2. CASE ~Client!Registered /\ ~(Registering \/ Registering')
      BY <1>1, <2>1, <3>2, InsideStep
    <3>3. CASE ~Client!Registered /\ UNCHANGED <<state_task, socket>>
      <4>1. UNCHANGED <<linkVars, service>>
        BY <2>1, <3>3, SocketSteps, SystemTypes
        DEF HangUp, linkVars, socket, vars, history, loopVars, service
      <4> QED  BY <3>3, <4>1, LinkFrame DEF SystemInv, Registering
    <3>4. Branch => ~Client!Registered
      BY DEF Branch, Settled, Client!Registered
    <3> QED  BY <2>1, <3>1, <3>2, <3>3, <3>4, RegisteringSteps
  <2>2. CASE Lost
    BY <2>2, LostStep
  <2>3. ASSUME NEW action \in Commands, Enter(action) PROVE LinkInv'
    BY <2>3, LinkFrame
    DEF Enter, Registering, Client!Submit, Client!taskVars, Client!socketVars, vars, loopVars, history,
        service, socket, SystemInv
  <2>4. CASE ReadClient
    BY <2>4, ReadClientStep
  <2>5. CASE ServerAlone
    BY <2>5, AloneStep
  <2>6. ASSUME NEW id \in Ids,
               \/ Connect(id) \/ ReadLeftover(id) \/ WriteReply(id) \/ WriteMessage(id)
               \/ Closes(id)
               \/ \E request \in Request : ReadPeer(id, request)
        PROVE  LinkInv'
    <3>1. CASE Connect(id)
      BY <1>1, <3>1, ConnectStep
    <3>2. CASE WriteReply(id)
      BY <3>2, WriteReplyStep
    <3>3. CASE WriteMessage(id) \/ Closes(id)
      BY <3>3, WriteOtherStep
    <3>4. CASE ReadLeftover(id)
      <4>1. \E request : request \in Meant(Head(leftover[id])) /\ request \in Request
        <5>1. Head(leftover[id]) \in Client!Request
          BY <3>4 DEF ReadLeftover, SystemInv, LinkInv, Connection
        <5> QED  BY <3>4, <5>1, MeantTypes DEF ReadLeftover
      <4> QED  BY <3>4, <4>1, ReadOthersStep
    <3>5. ASSUME NEW request \in Request, ReadPeer(id, request) PROVE LinkInv'
      BY <3>5, ReadOthersStep
    <3> QED  BY <2>6, <3>1, <3>2, <3>3, <3>4, <3>5
  <2>7. CASE UNCHANGED systemVars
    BY <2>7, LinkFrame
    DEF systemVars, clientVars, vars, loopVars, history, service, socket, Registering,
        SystemInv
  <2> QED  BY <2>1, <2>2, <2>3, <2>4, <2>5, <2>6, <2>7 DEF SystemNext
<1> QED  BY <1>1, <1>2 DEF SystemInv

(* The invariant holds throughout.                                         *)
LEMMA SystemInvariant == SystemSpec => []SystemInv
BY SystemInvInit, SystemInvStep, PTL DEF SystemSpec

(* The client is a peer as ChatServer assumes, on every connection it ever *)
(* makes: for any number of other peers, names, rooms and commands.        *)
THEOREM ClientIsPeer == SystemSpec => ServerSpec
<1>1. SystemInit => Init  BY DEF SystemInit
<1>2. SystemInv /\ [SystemNext]_systemVars => [Next]_vars  BY ServerStep
<1> QED  BY <1>1, <1>2, SystemInvariant, PTL DEF SystemSpec, ServerSpec, Spec

(* The server is as ChatClient assumes: it answers one request after the   *)
(* other, each with an answer to that request, whatever other peers do.    *)
THEOREM ServerIsEnvironment == SystemSpec => ClientSpec
<1>1. SystemInit => Client!Init  BY DEF SystemInit
<1>2. SystemInv /\ [SystemNext]_systemVars => [Client!Next]_(Client!vars)  BY ClientStep
<1> QED  BY <1>1, <1>2, SystemInvariant, PTL DEF SystemSpec, ClientSpec, Client!Spec

(* Once nothing is on its way between them, the server has the client's    *)
(* name and the client's connection holds it.                              *)
THEOREM NameAlwaysHeld == SystemSpec => []NameHeld
<1>1. SystemInv => NameHeld
  <2> SUFFICES ASSUME SystemInv, Quiet PROVE username_to_id[state.username] = link
    BY DEF NameHeld
  <2>1. Listening(link) /\ link \in Ids /\ conn[link] = "select"
    BY SystemTypes DEF Quiet, Listening
  <2>2. server_name = view[link].name /\ view[link].name # NoName
    BY <2>1 DEF Quiet, Registering, SystemInv, LinkInv, NameTold
  <2>3. view[link].name = id_to_username[link]
    <3>1. reply[link] = NoReply /\ Known(link) /\ view[link] \in View
      BY <2>1, SystemTypes DEF SystemInv, ViewInv, AnswerAwaited
    <3> QED  BY <3>1, ToldNothing DEF Known, After
  <2>4. state.username = server_name
    <3>1. Proved!NamesToCome = {}  BY DEF Quiet, Proved!NamesToCome
    <3> QED  BY <2>1, <2>2, <3>1 DEF Quiet, SystemInv, Proved!IInv, Proved!NameFollows
  <2>5. id_to_username[link] \in Names
    BY <2>1, <2>2, <2>3 DEF SystemInv, IInv, TypeOK, NameTypeOK
  <2> QED
    BY <2>1, <2>2, <2>3, <2>4, <2>5 DEF SystemInv, IInv, NamesAgree
<1> QED  BY <1>1, SystemInvariant, PTL
=============================================================================
