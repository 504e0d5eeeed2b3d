----------------------------- MODULE ChatSystem -----------------------------
(***************************************************************************)
(* One chatclient and the server together: the client of ChatClient, over  *)
(* its sockets, is one of the peers of ChatServer. ChatClient assumes      *)
(* something of its server and ChatServer of its peers; here both          *)
(* assumptions are checked against the other side's code.                  *)
(*                                                                         *)
(* Steps inside the client run on before anybody else moves: until it      *)
(* waits again neither the server nor the user can see how far it got. The *)
(* state task's timer, which changes nothing, is left out.                 *)
(***************************************************************************)
EXTENDS ChatServer

CONSTANTS
  MaxActions,   \* bound: commands the client's user enters
  MaxPushed,    \* bound: messages the server sends the client unasked
  Commands,     \* the actions this user asks for
  Asks,         \* what a command that only asks may ask the server for
  PeerTypes     \* the requests of the peers that are not this client

VARIABLES
  state, state_task, exit, connection_handle, shutdown, action_rx, state_rx,
  tui_task, shown, from_server, stream, server_name, entered, pushed,
  to_server,    \* requests in the client's socket; the one that is being
                \* answered stays in front until its answer is written
  link,         \* the server's id of the client's connection, or NoId
  mine,         \* the ids of all connections the client made
  leftover      \* requests in sockets that the client has dropped

clientVars == <<state, state_task, exit, connection_handle, shutdown, action_rx, state_rx,
                tui_task, shown, to_server, from_server, stream, server_name, entered,
                pushed>>
linkVars == <<link, mine, leftover>>
systemVars == <<vars, clientVars, linkVars>>

Client == INSTANCE ChatClient

(* What the user can enter, and what the requests of the client and of the *)
(* other peers may be.                                                     *)
ASSUME ChatSystemAssumption ==
  /\ MaxActions \in Nat
  /\ MaxPushed \in Nat
  /\ Commands \subseteq Client!Action
  /\ Asks \subseteq {r \in Request : r.type \in RequestTypes \cap
                                    {"SendTo", "Join", "Leave", "List", "Create"}}
  /\ PeerTypes \cup {"Register", "ChangeName", "PrivMsg"} \subseteq RequestTypes

SystemInit ==
  /\ Init
  /\ Client!Init
  /\ link = NoId
  /\ mine = {}
  /\ leftover = [id \in Ids |-> <<>>]

----------------------------------------------------------------------------
(* The client.                                                             *)

Settled ==
  /\ state_task \notin {"updated", "top", "registering"}
  /\ tui_task # "setup"
  /\ state_rx = 0
  /\ action_rx = <<>> \/ state_task # "select"

Unread ==
  IF stream = "open" /\ conn[link] = "waiting" THEN Tail(to_server) ELSE to_server

(* A client that drops its socket leaves in it what is not read yet.       *)
HangUp ==
  \/ /\ connection_handle
     /\ ~connection_handle'
     /\ link' = NoId
     /\ leftover' = [leftover EXCEPT ![link] = Unread]
  \/ /\ connection_handle => connection_handle'
     /\ UNCHANGED <<link, leftover>>

Inside ==
  /\ \/ Client!Updated \/ Client!Top \/ Client!TuiSetup \/ Client!Update
     \/ Client!TakeAction \/ Client!Registered
  /\ HangUp
  /\ UNCHANGED <<vars, mine>>

Branch ==
  /\ Settled
  /\ \/ Client!TakeMessage \/ Client!TakeReset \/ Client!TakeEnd \/ Client!NotConnected
     \/ Client!ShutdownBranch \/ Client!TuiShutdown
  /\ HangUp
  /\ UNCHANGED <<vars, mine>>

Enter(action) ==
  /\ Settled
  /\ state_task = "select"
  /\ Client!Submit(action)
  /\ UNCHANGED <<vars, linkVars>>

(* A connection belongs to the client or to another peer as soon as one of *)
(* them uses it.                                                           *)
Connect(id) ==
  /\ Settled
  /\ Alive
  /\ conn[id] = "select"
  /\ id \notin asked \cup gone \cup mine
  /\ Client!Connected
  /\ link' = id
  /\ mine' = mine \cup {id}
  /\ UNCHANGED <<vars, leftover>>

(* The client's end of a socket notices that the server's is closed, or    *)
(* that the network failed.                                                *)
Lost ==
  /\ Settled
  /\ connection_handle
  /\ link \in gone \/ conn[link] = "done" \/ ~Alive
  /\ Client!ServerCloses
  /\ UNCHANGED <<vars, linkVars>>

----------------------------------------------------------------------------
(* The server's connection tasks, at their sockets.                        *)

Meant(r) == IF r.type = "Ask" THEN Asks ELSE {[type |-> r.type, arg |-> r.name]}

ReadClient ==
  /\ Settled
  /\ connection_handle
  /\ to_server # <<>>
  /\ \E request \in Meant(Head(to_server)) : Read(link, request)
  /\ UNCHANGED <<clientVars, linkVars>>

ReadLeftover(id) ==
  /\ Settled
  /\ leftover[id] # <<>>
  /\ \E request \in Meant(Head(leftover[id])) : Read(id, request)
  /\ leftover' = [leftover EXCEPT ![id] = Tail(@)]
  /\ UNCHANGED <<clientVars, link, mine>>

ReadPeer(id, request) ==
  /\ Settled
  /\ id \notin mine
  /\ request.type \in PeerTypes
  /\ Receive(id, request)
  /\ UNCHANGED <<clientVars, linkVars>>

(* The bytes of an answer; a handler's error writes none.                  *)
Written(m) ==
  CASE m = Dropped -> <<>>
    [] m.type \in {"Registered", "ChangedName"} -> <<[type |-> m.type, name |-> m.arg]>>
    [] m.type = "Failed" ->
         <<[type |-> "Failed", cmd |-> IF m.arg = "Register" THEN "register" ELSE "other"]>>
    [] m.type = "MessagedRoom" -> <<[type |-> "MessagedRoom"]>>
    [] OTHER -> <<[type |-> "Text"]>>

Listening(id) == connection_handle /\ id = link /\ stream = "open"

socketFrame == <<state, state_task, exit, connection_handle, shutdown, action_rx, state_rx,
                 tui_task, shown, stream, entered, linkVars>>

WriteReply(id) ==
  /\ Settled
  /\ TakeReply(id)
  /\ \/ /\ Listening(id)
        /\ to_server' = Tail(to_server)
        /\ from_server' = from_server \o Written(reply[id])
        /\ server_name' = view'[id].name
     \/ /\ ~Listening(id)
        /\ UNCHANGED <<to_server, from_server, server_name>>
  /\ UNCHANGED <<socketFrame, pushed>>

WriteMessage(id) ==
  /\ Settled
  /\ Deliver(id)
  /\ \/ /\ Listening(id)
        /\ pushed < MaxPushed
        /\ pushed' = pushed + 1
        /\ from_server' = Append(from_server, [type |-> "Text"])
     \/ /\ ~Listening(id)
        /\ UNCHANGED <<pushed, from_server>>
  /\ UNCHANGED <<socketFrame, to_server, server_name>>

(* The end of a dropped socket may overtake what it still holds; any other *)
(* socket may fail.                                                        *)
Closes(id) ==
  /\ Settled
  /\ PeerCloses(id)
  /\ leftover' = [leftover EXCEPT ![id] = <<>>]
  /\ UNCHANGED <<clientVars, link, mine>>

(* The rest of the server does not touch a socket.                         *)
ServerAlone ==
  /\ Settled
  /\ \/ Accept \/ CtrlC \/ JoinAll \/ Serve
     \/ \E id \in Ids :
          \/ Handshake(id) \/ EndOfStream(id) \/ ShutdownSignal(id)
          \/ \E room \in Rooms : Forward(id, room) \/ ForwardLagged(id, room)
     \/ \E a \in aborting : ForwardAborted(a) \/ EndAborted(a)
  /\ UNCHANGED <<clientVars, linkVars>>

----------------------------------------------------------------------------
SystemNext ==
  \/ Inside \/ Branch \/ Lost \/ \E action \in Commands : Enter(action)
  \/ ReadClient \/ ServerAlone
  \/ \E id \in Ids :
       \/ Connect(id) \/ ReadLeftover(id) \/ \E request \in Request : ReadPeer(id, request)
       \/ WriteReply(id) \/ WriteMessage(id) \/ Closes(id)

SystemSpec == SystemInit /\ [][SystemNext]_systemVars
----------------------------------------------------------------------------
(* The server is the environment that ChatClient assumes: every step of    *)
(* the system is a step of the client's specification.                     *)
ClientSpec == Client!Spec

(* The client is a peer as ChatServer assumes: on each connection, also on *)
(* one it dropped with requests in it, it registers first and once.        *)
ServerSpec == Spec

(* Once nothing is on its way between them, the server has the client's    *)
(* name and this connection is its holder: whatever was refused, renamed,  *)
(* dropped or reconnected before.                                          *)
Quiet ==
  /\ connection_handle /\ state_task # "registering"
  /\ stream = "open"
  /\ to_server = <<>>
  /\ from_server = <<>>
  /\ conn[link] = "select"

NameHeld == (server = "running" /\ Quiet) => username_to_id[state.username] = link

(* chatclient's main.rs:235, "Cannot send message to yourself": no private *)
(* message of the client has the client as its receiver.                   *)
NotToYourself ==
  (server = "running" /\ rx # <<>>) =>
    LET event == Head(rx) IN
    (event.id \in mine /\ event.request.type = "PrivMsg") =>
      username_to_id[event.request.arg] # event.id
=============================================================================
