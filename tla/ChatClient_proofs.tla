-------------------------- MODULE ChatClient_proofs --------------------------
(***************************************************************************)
(* Theorems about ChatClient, for every set of names and every bound: the  *)
(* screen follows the state, the status follows the connection, and the    *)
(* client's name follows the server's answers.                             *)
(***************************************************************************)
EXTENDS ChatClient, TLAPS

(* What the steps of the tasks keep of each other: the state task connects *)
(* with a name and without a connection, which it has when it registers,   *)
(* and whoever has ended, or made the other end, did so for /quit.         *)
Phases ==
  /\ state_task \in {"connecting", "registering"} =>
       /\ connection_handle <=> state_task = "registering"
       /\ state.username # NoName
  /\ tui_task = "ended" => exit
  /\ Over => exit

(* The status is right at every point of the loop, not in the select only. *)
StatusFollows ==
  /\ ~exit => (connection_handle <=> state.connection_status = "Established")
  /\ exit /\ state_task \in {"select", "ended"} => ~connection_handle

(* The last name that is on its way to the client is the one the server    *)
(* has; if none is, the client has that name already.                      *)
NamesToCome == {i \in DOMAIN from_server : from_server[i].type \in {"Registered", "ChangedName"}}

NameFollows ==
  (connection_handle /\ server_name # NoName) =>
    /\ \A i \in NamesToCome :
         (\A j \in NamesToCome : j <= i) => from_server[i].name = server_name
    /\ NamesToCome = {} => state.username = server_name

IInv == TypeOK /\ DisplayInSync /\ Phases /\ StatusFollows /\ NameFollows

----------------------------------------------------------------------------
(* Types.                                                                  *)

(* A notification, and a termination, change what they should only.        *)
LEMMA StateTypes ==
  ASSUME NEW s \in ClientState
  PROVE  /\ Notified(s) \in ClientState
         /\ Notified(s).username = s.username
         /\ Notified(s).connection_status = s.connection_status
         /\ Terminated(s) \in ClientState
         /\ Terminated(s).username = s.username
         /\ Terminated(s).connection_status = "Unitiliazed"
         /\ \A n \in Names : [s EXCEPT !.username = n] \in ClientState
         /\ [s EXCEPT !.connection_status = "Established"] \in ClientState
BY DEF ClientState, Notified, Terminated

(* Only a new name, never a refusal, makes a message carry a name.         *)
LEMMA MessageType ==
  ASSUME NEW m \in Message
  PROVE  /\ m.type \in {"Registered", "ChangedName"} => m.name \in Names
         /\ Refused(m) => m.type \notin {"Registered", "ChangedName"}
BY DEF Message, Refused

(* A message read leaves a state of the client.                            *)
LEMMA HandleMessageType ==
  ASSUME NEW s \in ClientState, NEW m \in Message
  PROVE  /\ HandleMessage(s, m) \in ClientState
         /\ Refused(m) => HandleMessage(s, m).connection_status = "Unitiliazed"
         /\ ~Refused(m) => HandleMessage(s, m).connection_status = s.connection_status
         /\ HandleMessage(s, m).username =
              IF m.type \in {"Registered", "ChangedName"} THEN m.name ELSE s.username
<1>1. CASE Refused(m)
  <2>1. HandleMessage(s, m) = Terminated(Notified(s))
    BY <1>1 DEF HandleMessage, Refused
  <2>2. Notified(s) \in ClientState /\ Notified(s).username = s.username
    BY StateTypes
  <2> QED  BY <1>1, <2>1, <2>2, StateTypes, MessageType
<1>2. CASE ~Refused(m) /\ m.type \in {"Registered", "ChangedName"}
  BY <1>2, StateTypes, MessageType DEF HandleMessage, Notified, ClientState
<1>3. CASE ~Refused(m) /\ m.type = "MessagedRoom"
  BY <1>3 DEF HandleMessage
<1>4. CASE ~Refused(m) /\ m.type \notin {"Registered", "ChangedName", "MessagedRoom"}
  BY <1>4, StateTypes DEF HandleMessage
<1> QED  BY <1>1, <1>2, <1>3, <1>4

(* The server's answers are messages.                                      *)
LEMMA AnswersType ==
  ASSUME NEW r \in Request
  PROVE  Answers(r) \subseteq Message
BY DEF Request, Answers, Message

(* What is left of a queue, and a longer one, is a queue.                  *)
LEMMA QueueTypes ==
  ASSUME NEW S, NEW q \in Seq(S)
  PROVE  /\ \A x \in S : Append(q, x) \in Seq(S)
         /\ q # <<>> => Head(q) \in S /\ Tail(q) \in Seq(S)
         /\ \A n \in 0 .. Len(q) : SubSeq(q, 1, n) \in Seq(S)
OBVIOUS

(* The types hold at first.                                                *)
LEMMA TypeInit == Init => TypeOK
<1> SUFFICES ASSUME Init PROVE TypeOK  OBVIOUS
<1>1. state \in ClientState /\ shown = state
  BY DEF Init, ClientState
<1>2. /\ action_rx \in Seq(Action) /\ to_server \in Seq(Request)
      /\ from_server \in Seq(Message)
  BY DEF Init
<1>3. /\ state_task \in StateTask /\ tui_task \in TuiTask
      /\ state_rx \in Nat
      /\ entered \in 0 .. MaxActions /\ pushed \in 0 .. MaxPushed
  BY ClientAssumption DEF Init, StateTask, TuiTask
<1> QED  BY <1>1, <1>2, <1>3 DEF Init, TypeOK

(* Sending a request keeps the types.                                      *)
LEMMA SendType ==
  ASSUME TypeOK, NEW r \in Request, Send(r)
  PROVE  /\ to_server' \in Seq(Request)
         /\ UNCHANGED <<from_server, stream, server_name>>
BY QueueTypes DEF Send, TypeOK

(* What the channel of actions yields is an action, or that it is closed.  *)
LEMMA ReceiveType ==
  ASSUME TypeOK, NEW a, Receive(a)
  PROVE  /\ action_rx' \in Seq(Action)
         /\ a \in Action \cup {NoAction}
BY QueueTypes DEF Receive, TypeOK

(* A dropped connection leaves nothing of the socket.                      *)
LEMMA DropType ==
  ASSUME DropConnection
  PROVE  /\ connection_handle' = FALSE
         /\ to_server' = <<>> /\ from_server' = <<>>
         /\ to_server' \in Seq(Request)
         /\ from_server' \in Seq(Message)
         /\ stream' = "open" /\ server_name' = NoName
BY DEF DropConnection

(* An action of the user changes the state task's own variables and the    *)
(* socket's, each within its type, and leaves the flags alone.             *)
LEMMA ConnectedActionType ==
  ASSUME TypeOK, ConnectedAction
  PROVE  /\ state' \in ClientState
         /\ state'.username = state.username
         /\ state_task = "select" /\ state_task' = "updated"
         /\ action_rx' \in Seq(Action)
         /\ \/ /\ connection_handle' = connection_handle
               /\ state'.connection_status = state.connection_status
               /\ to_server' \in Seq(Request)
               /\ UNCHANGED <<from_server, stream, server_name>>
            \/ /\ state'.connection_status = "Unitiliazed"
               /\ DropConnection
         /\ UNCHANGED <<branchFrame, exit>>
<1>1. PICK a \in (Action \cup {NoAction}) \ [type : {"Quit"}] :
        /\ Receive(a)
        /\ \/ a.type = "SetName" /\ ChangeName(a.name)
           \/ a.type = "PrivMsg" /\ PrivMsg(a.name)
           \/ a.type = "Ask" /\ Ask
           \/ a.type = "Disconnect" /\ Disconnect
           \/ /\ a.type \in {"Help", "Invalid"}
              /\ Notify
              /\ UNCHANGED <<connection_handle, socketVars>>
           \/ /\ a.type \in {"Connect", "None"}
              /\ UNCHANGED <<state, connection_handle, socketVars>>
  BY DEF ConnectedAction
<1>2. /\ state_task = "select" /\ state_task' = "updated"
      /\ action_rx' \in Seq(Action)
      /\ UNCHANGED <<branchFrame, exit>>
  BY <1>1, ReceiveType DEF ConnectedAction, Receive
<1>3. state \in ClientState /\ to_server \in Seq(Request)  BY DEF TypeOK
<1>4. a.type \in {"SetName", "PrivMsg"} => a.name \in Names  BY <1>1 DEF Action, NoAction
<1>5. CASE a.type = "SetName" /\ ChangeName(a.name)
  <2>1. [type |-> "ChangeName", name |-> a.name] \in Request  BY <1>4, <1>5 DEF Request
  <2> QED  BY <1>2, <1>3, <1>5, <2>1, SendType, StateTypes DEF ChangeName, Notify
<1>6. CASE a.type = "PrivMsg" /\ PrivMsg(a.name)
  <2>1. [type |-> "PrivMsg", name |-> a.name] \in Request  BY <1>4, <1>6 DEF Request
  <2> QED  BY <1>2, <1>3, <1>6, <2>1, SendType, StateTypes DEF PrivMsg, Notify, socketVars
<1>7. CASE a.type = "Ask" /\ Ask
  <2>1. [type |-> "Ask"] \in Request  BY DEF Request
  <2> QED  BY <1>2, <1>3, <1>7, <2>1, SendType DEF Ask
<1>8. CASE a.type = "Disconnect" /\ Disconnect
  BY <1>2, <1>3, <1>8, StateTypes DEF Disconnect
<1>9. CASE Notify /\ UNCHANGED <<connection_handle, socketVars>>
  BY <1>2, <1>3, <1>9, StateTypes DEF Notify, socketVars
<1>10. CASE UNCHANGED <<state, connection_handle, socketVars>>
  BY <1>2, <1>3, <1>10 DEF socketVars
<1> QED  BY <1>1, <1>5, <1>6, <1>7, <1>8, <1>9, <1>10

(* An action taken without a connection keeps the types.                   *)
LEMMA DisconnectedActionType ==
  ASSUME TypeOK, DisconnectedAction
  PROVE  /\ state' \in ClientState
         /\ state'.connection_status = state.connection_status
         /\ ~connection_handle
         /\ state_task = "select"
         /\ \/ state_task' = "updated"
            \/ state_task' = "connecting" /\ state' = state /\ state.username # NoName
         /\ action_rx' \in Seq(Action)
         /\ UNCHANGED <<branchFrame, exit, connection_handle, socketVars>>
<1>1. PICK a \in (Action \cup {NoAction}) \ [type : {"Quit"}] :
        /\ Receive(a)
        /\ \/ /\ a.type = "SetName"
              /\ state' = [Notified(state) EXCEPT !.username = a.name]
              /\ state_task' = "updated"
           \/ /\ a.type # "SetName"
              /\ OnlyNotifies(a)
              /\ Notify
              /\ state_task' = "updated"
           \/ /\ ~OnlyNotifies(a)
              /\ state_task' = "connecting"
              /\ UNCHANGED state
  BY DEF DisconnectedAction
<1>2. /\ ~connection_handle
      /\ state_task = "select"
      /\ action_rx' \in Seq(Action)
      /\ UNCHANGED <<branchFrame, exit, connection_handle, socketVars>>
  BY <1>1, ReceiveType DEF DisconnectedAction, Receive
<1>3. state \in ClientState  BY DEF TypeOK
<1>4. CASE /\ a.type = "SetName"
           /\ state' = [Notified(state) EXCEPT !.username = a.name]
           /\ state_task' = "updated"
  <2>1. a.name \in Names  BY <1>1, <1>4 DEF Action, NoAction
  <2>2. state' \in ClientState
    BY <1>3, <1>4, <2>1, StateTypes
  <2>3. state'.connection_status = state.connection_status
    BY <1>3, <1>4, StateTypes DEF Notified, ClientState
  <2> QED  BY <1>2, <1>4, <2>2, <2>3
<1>5. CASE Notify /\ state_task' = "updated"
  BY <1>2, <1>3, <1>5, StateTypes DEF Notify
<1>6. CASE ~OnlyNotifies(a) /\ state_task' = "connecting" /\ UNCHANGED state
  BY <1>2, <1>3, <1>6 DEF OnlyNotifies
<1> QED  BY <1>1, <1>4, <1>5, <1>6

(* The types are preserved.                                                *)
LEMMA TypeStep ==
  ASSUME TypeOK, Phases, [Next]_vars
  PROVE  TypeOK'
<1> USE DEF taskVars, tuiVars, socketVars, branchFrame
<1>1. CASE Updated
  <2>1. CASE /\ state_rx' = state_rx + 1
             /\ state_task' = "top"
             /\ UNCHANGED <<connection_handle, socketVars>>
    BY <1>1, <2>1 DEF Updated, TypeOK, StateTask
  <2>2. CASE state_task' = "panicked" /\ DropConnection /\ UNCHANGED state_rx
    BY <1>1, <2>2, DropType DEF Updated, TypeOK, StateTask
  <2> QED  BY <1>1, <2>1, <2>2 DEF Updated
<1>2. CASE Top
  <2>1. CASE exit /\ shutdown' = TRUE /\ DropConnection
    BY <1>2, <2>1, DropType DEF Top, TypeOK, StateTask
  <2>2. CASE UNCHANGED <<shutdown, connection_handle, socketVars>>
    BY <1>2, <2>2 DEF Top, TypeOK, StateTask
  <2> QED  BY <1>2, <2>1, <2>2 DEF Top
<1>3. CASE Tick
  BY <1>3 DEF Tick, TypeOK, StateTask
<1>4. CASE ShutdownBranch
  BY <1>4 DEF ShutdownBranch, TypeOK, StateTask
<1>5. CASE TakeMessage
  <2>1. Head(from_server) \in Message /\ Tail(from_server) \in Seq(Message)
    BY <1>5, QueueTypes DEF TakeMessage, TypeOK
  <2>2. state' \in ClientState
    BY <1>5, <2>1, HandleMessageType DEF TakeMessage, TypeOK
  <2>3. CASE DropConnection
    BY <1>5, <2>2, <2>3, DropType DEF TakeMessage, TypeOK, StateTask
  <2>4. CASE from_server' = Tail(from_server)
               /\ UNCHANGED <<connection_handle, to_server, stream, server_name>>
    BY <1>5, <2>1, <2>2, <2>4 DEF TakeMessage, TypeOK, StateTask
  <2> QED  BY <1>5, <2>3, <2>4 DEF TakeMessage
<1>6. CASE TakeReset
  BY <1>6 DEF TakeReset, TypeOK, StateTask
<1>7. CASE TakeEnd
  <2>1. state' \in ClientState  BY <1>7, StateTypes DEF TakeEnd, TypeOK
  <2> QED  BY <1>7, <2>1, DropType DEF TakeEnd, TypeOK, StateTask
<1>8. CASE Quit
  <2>1. action_rx' \in Seq(Action)  BY <1>8, ReceiveType DEF Quit
  <2> QED  BY <1>8, <2>1 DEF Quit, TypeOK, StateTask
<1>9. CASE ConnectedAction
  <2>1. connection_handle  BY <1>9 DEF ConnectedAction
  <2>2. CASE connection_handle' = connection_handle /\ to_server' \in Seq(Request)
               /\ UNCHANGED <<from_server, stream, server_name>>
    BY <1>9, <2>1, <2>2, ConnectedActionType DEF TypeOK, StateTask
  <2>3. CASE DropConnection
    BY <1>9, <2>1, <2>3, DropType, ConnectedActionType DEF TypeOK, StateTask
  <2> QED  BY <1>9, <2>2, <2>3, ConnectedActionType
<1>10. CASE DisconnectedAction
  BY <1>10, DisconnectedActionType DEF TypeOK, StateTask
<1>11. CASE Connected
  <2>1. state' \in ClientState  BY <1>11, StateTypes DEF Connected, TypeOK
  <2> QED  BY <1>11, <2>1 DEF Connected, TypeOK, StateTask
<1>12. CASE NotConnected
  <2>1. state' \in ClientState  BY <1>12, StateTypes DEF NotConnected, Notify, TypeOK
  <2> QED  BY <1>12, <2>1 DEF NotConnected, TypeOK, StateTask
<1>13. CASE TuiSetup
  BY <1>13 DEF TuiSetup, TypeOK, TuiTask
<1>14. CASE Update
  BY <1>14 DEF Update, TypeOK
<1>15. CASE TuiShutdown
  BY <1>15 DEF TuiShutdown, TypeOK, TuiTask
<1>16. ASSUME NEW action \in Action, Submit(action) PROVE TypeOK'
  <2>1. action_rx' \in Seq(Action)  BY <1>16, QueueTypes DEF Submit, TypeOK
  <2>2. entered' \in 0 .. MaxActions  BY <1>16, ClientAssumption DEF Submit, TypeOK
  <2> QED  BY <1>16, <2>1, <2>2 DEF Submit, TypeOK
<1>17. CASE ServerAnswers
  <2>1. Head(to_server) \in Request /\ Tail(to_server) \in Seq(Request)
    BY <1>17, QueueTypes DEF ServerAnswers, TypeOK
  <2>2. PICK m \in Answers(Head(to_server)) :
          /\ from_server' = Append(from_server, m)
          /\ server_name' = IF m.type \in {"Registered", "ChangedName"} THEN m.name
                            ELSE server_name
    BY <1>17 DEF ServerAnswers
  <2>3. m \in Message  BY <2>1, <2>2, AnswersType
  <2>4. /\ from_server' \in Seq(Message)
        /\ server_name' \in Names \cup {NoName}
    BY <2>2, <2>3, QueueTypes, MessageType DEF TypeOK
  <2> QED  BY <1>17, <2>1, <2>4 DEF ServerAnswers, TypeOK
<1>18. CASE ServerPushes
  <2>1. [type |-> "Text"] \in Message  BY DEF Message
  <2>2. from_server' \in Seq(Message)  BY <1>18, <2>1, QueueTypes DEF ServerPushes, TypeOK
  <2>3. pushed' \in 0 .. MaxPushed  BY <1>18, ClientAssumption DEF ServerPushes, TypeOK
  <2> QED  BY <1>18, <2>2, <2>3 DEF ServerPushes, TypeOK
<1>19. CASE ServerCloses
  <2>1. from_server' \in Seq(Message)  BY <1>19, QueueTypes DEF ServerCloses, TypeOK
  <2> QED  BY <1>19, <2>1 DEF ServerCloses, TypeOK
<1>20. CASE Registered
  <2>1. [type |-> "Register", name |-> state.username] \in Request
    BY <1>20 DEF Registered, Phases, TypeOK, ClientState, Request
  <2>2. Send([type |-> "Register", name |-> state.username])  BY <1>20 DEF Registered
  <2>3. to_server' \in Seq(Request) /\ UNCHANGED <<from_server, stream, server_name>>
    BY <2>1, <2>2, SendType
  <2> QED  BY <1>20, <2>3 DEF Registered, Phases, TypeOK, StateTask
<1>21. CASE UNCHANGED vars
  BY <1>21 DEF vars, TypeOK
<1> QED
  BY <1>1, <1>2, <1>3, <1>4, <1>5, <1>6, <1>7, <1>8, <1>9, <1>10, <1>11, <1>12, <1>13,
     <1>14, <1>15, <1>16, <1>17, <1>18, <1>19, <1>20, <1>21
  DEF Next, TakeAction

----------------------------------------------------------------------------
(* The invariant.                                                          *)

(* Phases is preserved.                                                    *)
LEMMA PhasesStep ==
  ASSUME TypeOK, Phases, [Next]_vars
  PROVE  Phases'
<1> USE DEF Phases, Over, taskVars, tuiVars, branchFrame
<1>1. CASE Updated \/ Top \/ Tick \/ TakeReset \/ TakeEnd \/ NotConnected
  BY <1>1 DEF Updated, Top, Tick, TakeReset, TakeEnd, NotConnected, DropConnection
<1>2. CASE ShutdownBranch \/ TuiShutdown
  BY <1>2 DEF ShutdownBranch, TuiShutdown, TypeOK
<1>3. CASE TakeMessage
  BY <1>3 DEF TakeMessage
<1>4. CASE Quit
  BY <1>4 DEF Quit, Receive
<1>5. CASE ConnectedAction
  BY <1>5, ConnectedActionType
<1>6. CASE DisconnectedAction
  BY <1>6, DisconnectedActionType
<1>7. CASE Connected
  <2>1. state'.username = state.username
    BY <1>7, StateTypes DEF Connected, TypeOK, ClientState, Notified
  <2> QED  BY <1>7, <2>1 DEF Connected
<1>8. CASE TuiSetup \/ Update \/ Registered \/ \E action \in Action : Submit(action)
  BY <1>8 DEF TuiSetup, Update, Registered, Submit
<1>9. CASE ServerAnswers \/ ServerPushes \/ ServerCloses
  BY <1>9 DEF ServerAnswers, ServerPushes, ServerCloses
<1>10. CASE UNCHANGED vars
  BY <1>10 DEF vars
<1> QED
  BY <1>1, <1>2, <1>3, <1>4, <1>5, <1>6, <1>7, <1>8, <1>9, <1>10 DEF Next, TakeAction

(* DisplayInSync is preserved.                                             *)
LEMMA DisplayStep ==
  ASSUME TypeOK, DisplayInSync, [Next]_vars
  PROVE  DisplayInSync'
<1> USE DEF DisplayInSync, taskVars, tuiVars, branchFrame
<1>1. CASE Updated
  BY <1>1 DEF Updated, TypeOK
<1>2. CASE Top \/ Tick \/ ShutdownBranch
  BY <1>2 DEF Top, Tick, ShutdownBranch
<1>3. CASE TakeMessage \/ TakeReset \/ TakeEnd \/ Connected \/ NotConnected \/ Registered
             \/ Quit
  BY <1>3
  DEF TakeMessage, TakeReset, TakeEnd, Connected, NotConnected, Registered, Quit
<1>4. CASE ConnectedAction
  BY <1>4 DEF ConnectedAction
<1>5. CASE DisconnectedAction
  BY <1>5, DisconnectedActionType
<1>6. CASE TuiSetup \/ Update \/ TuiShutdown \/ \E action \in Action : Submit(action)
  BY <1>6 DEF TuiSetup, Update, TuiShutdown, Submit
<1>7. CASE ServerAnswers \/ ServerPushes \/ ServerCloses
  BY <1>7 DEF ServerAnswers, ServerPushes, ServerCloses
<1>8. CASE UNCHANGED vars
  BY <1>8 DEF vars
<1> QED
  BY <1>1, <1>2, <1>3, <1>4, <1>5, <1>6, <1>7, <1>8 DEF Next, TakeAction

(* StatusFollows is preserved.                                             *)
LEMMA StatusStep ==
  ASSUME TypeOK, Phases, StatusFollows, [Next]_vars
  PROVE  StatusFollows'
<1> USE DEF StatusFollows, taskVars, tuiVars, branchFrame
<1>1. CASE Updated
  BY <1>1 DEF Updated, DropConnection, Phases
<1>2. CASE Top
  <2>1. CASE exit
    BY <1>2, <2>1, DropType DEF Top
  <2>2. CASE ~exit
    BY <1>2, <2>2 DEF Top
  <2> QED  BY <2>1, <2>2
<1>3. CASE Tick \/ ShutdownBranch \/ TakeReset \/ Registered \/ Quit
  BY <1>3 DEF Tick, ShutdownBranch, TakeReset, Registered, Quit
<1>4. CASE TakeMessage
  <2>1. state \in ClientState /\ Head(from_server) \in Message
    BY <1>4, QueueTypes DEF TakeMessage, TypeOK
  <2>2. CASE Refused(Head(from_server)) /\ DropConnection
    BY <1>4, <2>1, <2>2, HandleMessageType, DropType DEF TakeMessage
  <2>3. CASE ~Refused(Head(from_server)) /\ UNCHANGED connection_handle
    BY <1>4, <2>1, <2>3, HandleMessageType DEF TakeMessage
  <2> QED  BY <1>4, <2>2, <2>3 DEF TakeMessage
<1>5. CASE TakeEnd
  BY <1>5, StateTypes, DropType DEF TakeEnd, TypeOK
<1>6. CASE ConnectedAction
  <2>1. connection_handle /\ exit' = exit /\ state_task' = "updated"
    BY <1>6, ConnectedActionType DEF ConnectedAction
  <2>2. CASE /\ connection_handle' = connection_handle
             /\ state'.connection_status = state.connection_status
    BY <2>1, <2>2
  <2>3. CASE state'.connection_status = "Unitiliazed" /\ DropConnection
    BY <2>1, <2>3, DropType
  <2> QED  BY <1>6, <2>2, <2>3, ConnectedActionType
<1>7. CASE DisconnectedAction
  BY <1>7, DisconnectedActionType
<1>8. CASE Connected
  <2>1. Notified(state) \in ClientState  BY StateTypes DEF TypeOK
  <2>2. state'.connection_status = "Established"
    BY <1>8, <2>1 DEF Connected, ClientState
  <2> QED  BY <1>8, <2>2 DEF Connected
<1>9. CASE NotConnected
  BY <1>9, StateTypes DEF NotConnected, Notify, TypeOK
<1>10. CASE TuiSetup \/ Update \/ TuiShutdown \/ \E action \in Action : Submit(action)
  BY <1>10 DEF TuiSetup, Update, TuiShutdown, Submit
<1>11. CASE ServerAnswers \/ ServerPushes \/ ServerCloses
  BY <1>11 DEF ServerAnswers, ServerPushes, ServerCloses
<1>12. CASE UNCHANGED vars
  BY <1>12 DEF vars
<1> QED
  BY <1>1, <1>2, <1>3, <1>4, <1>5, <1>6, <1>7, <1>8, <1>9, <1>10, <1>11, <1>12
  DEF Next, TakeAction

(* A message behind the others becomes the last one, if it carries a name. *)
LEMMA AppendNames ==
  ASSUME TypeOK, NameFollows, NEW m \in Message,
         connection_handle' => connection_handle,
         from_server' = Append(from_server, m),
         server_name' = IF m.type \in {"Registered", "ChangedName"} THEN m.name
                        ELSE server_name,
         state'.username = state.username
  PROVE  NameFollows'
<1> DEFINE k == Len(from_server) + 1
<1>1. /\ k \in Nat /\ DOMAIN from_server = 1 .. Len(from_server)
      /\ DOMAIN from_server' = 1 .. k
      /\ from_server'[k] = m
      /\ \A i \in DOMAIN from_server : i < k /\ from_server'[i] = from_server[i]
  BY DEF TypeOK
<1>2. CASE m.type \in {"Registered", "ChangedName"}
  <2>1. k \in NamesToCome'  BY <1>1, <1>2 DEF NamesToCome
  <2>2. ASSUME NEW i \in NamesToCome', \A j \in NamesToCome' : j <= i
        PROVE  from_server'[i] = m
    BY <1>1, <2>1, <2>2 DEF NamesToCome
  <2> QED  BY <1>2, <2>1, <2>2 DEF NameFollows
<1>3. CASE m.type \notin {"Registered", "ChangedName"}
  <2>1. NamesToCome' = NamesToCome  BY <1>1, <1>3 DEF NamesToCome
  <2>2. \A i \in NamesToCome : from_server'[i] = from_server[i]
    BY <1>1 DEF NamesToCome
  <2> QED  BY <1>3, <2>1, <2>2 DEF NameFollows
<1> QED  BY <1>2, <1>3

(* The front message goes; if it was the only one with a name, the client  *)
(* takes that name.                                                        *)
LEMMA TakeNames ==
  ASSUME TypeOK, NameFollows, from_server # <<>>,
         from_server' = Tail(from_server),
         UNCHANGED <<connection_handle, server_name>>,
         state'.username =
           IF Head(from_server).type \in {"Registered", "ChangedName"}
           THEN Head(from_server).name ELSE state.username
  PROVE  NameFollows'
<1>1. /\ Len(from_server) \in Nat \ {0}
      /\ DOMAIN from_server = 1 .. Len(from_server)
      /\ DOMAIN from_server' = 1 .. Len(from_server) - 1
      /\ \A i \in DOMAIN from_server' : from_server'[i] = from_server[i + 1]
      /\ Head(from_server) = from_server[1]
  BY DEF TypeOK
<1>2. \A i \in NamesToCome' : i + 1 \in NamesToCome
  BY <1>1 DEF NamesToCome
<1>3. \A i \in NamesToCome : i = 1 \/ (i - 1 \in NamesToCome' /\ i \in Nat)
  BY <1>1 DEF NamesToCome
<1>4. SUFFICES ASSUME connection_handle, server_name # NoName
               PROVE  /\ \A i \in NamesToCome' :
                           (\A j \in NamesToCome' : j <= i)
                             => from_server'[i].name = server_name
                      /\ NamesToCome' = {} => state'.username = server_name
  BY DEF NameFollows
<1>5. ASSUME NEW i \in NamesToCome', \A j \in NamesToCome' : j <= i
      PROVE  from_server'[i].name = server_name
  <2>1. i \in Nat /\ i + 1 \in NamesToCome /\ from_server'[i] = from_server[i + 1]
    BY <1>1, <1>2 DEF NamesToCome
  <2>2. ASSUME NEW j \in NamesToCome PROVE j <= i + 1
    <3>1. CASE j = 1
      BY <2>1, <3>1
    <3>2. CASE j - 1 \in NamesToCome' /\ j \in Nat
      <4>1. j - 1 <= i  BY <1>5, <3>2
      <4> QED  BY <2>1, <3>2, <4>1
    <3> QED  BY <1>3, <2>2, <3>1, <3>2
  <2>3. from_server[i + 1].name = server_name
    BY <1>4, <2>1, <2>2 DEF NameFollows
  <2> QED  BY <2>1, <2>3
<1>6. ASSUME NamesToCome' = {} PROVE state'.username = server_name
  <2>1. \A i \in NamesToCome : i = 1  BY <1>3, <1>6
  <2>2. CASE NamesToCome = {}
    BY <1>1, <1>4, <2>2 DEF NameFollows, NamesToCome
  <2>3. CASE 1 \in NamesToCome
    BY <1>1, <1>4, <2>1, <2>3 DEF NameFollows, NamesToCome
  <2> QED  BY <2>1, <2>2, <2>3
<1> QED  BY <1>5, <1>6

(* NameFollows is preserved.                                               *)
LEMMA NameStep ==
  ASSUME TypeOK, Phases, NameFollows, [Next]_vars
  PROVE  NameFollows'
<1> DEFINE Same == /\ UNCHANGED <<from_server, server_name>>
                   /\ connection_handle' => connection_handle
                   /\ state'.username = state.username
<1>1. ASSUME Same PROVE NameFollows'
  BY <1>1 DEF NameFollows, NamesToCome
<1>2. ASSUME ~connection_handle' \/ server_name' = NoName PROVE NameFollows'
  BY <1>2 DEF NameFollows
<1> HIDE DEF Same
<1> USE DEF taskVars, tuiVars, branchFrame, socketVars
<1>3. CASE Updated
  BY <1>1, <1>2, <1>3 DEF Updated, DropConnection, Same
<1>4. CASE Top
  BY <1>1, <1>2, <1>4 DEF Top, DropConnection, Same
<1>5. CASE Tick \/ ShutdownBranch \/ TakeReset \/ Registered \/ Quit
  BY <1>1, <1>5 DEF Tick, ShutdownBranch, TakeReset, Registered, Send, Quit, Same
<1>6. CASE TakeMessage
  <2>1. state \in ClientState /\ Head(from_server) \in Message
    BY <1>6, QueueTypes DEF TakeMessage, TypeOK
  <2>2. CASE DropConnection
    BY <1>2, <2>2 DEF DropConnection
  <2>3. CASE from_server' = Tail(from_server)
               /\ UNCHANGED <<connection_handle, to_server, stream, server_name>>
    BY <1>6, <2>1, <2>3, HandleMessageType, TakeNames DEF TakeMessage
  <2> QED  BY <1>6, <2>2, <2>3 DEF TakeMessage
<1>7. CASE TakeEnd
  BY <1>2, <1>7 DEF TakeEnd, DropConnection
<1>8. CASE ConnectedAction
  BY <1>1, <1>2, <1>8, ConnectedActionType DEF DropConnection, Same
<1>9. CASE DisconnectedAction
  BY <1>2, <1>9, DisconnectedActionType
<1>10. CASE Connected
  BY <1>2, <1>10 DEF Connected, Phases, TypeOK
<1>11. CASE NotConnected
  BY <1>2, <1>11 DEF NotConnected, Phases
<1>12. CASE TuiSetup \/ Update \/ TuiShutdown \/ \E action \in Action : Submit(action)
  BY <1>1, <1>12 DEF TuiSetup, Update, TuiShutdown, Submit, Same
<1>13. CASE ServerAnswers
  <2>1. Head(to_server) \in Request  BY <1>13, QueueTypes DEF ServerAnswers, TypeOK
  <2>2. PICK m \in Answers(Head(to_server)) :
          /\ from_server' = Append(from_server, m)
          /\ server_name' = IF m.type \in {"Registered", "ChangedName"} THEN m.name
                            ELSE server_name
    BY <1>13 DEF ServerAnswers
  <2>3. m \in Message  BY <2>1, <2>2, AnswersType
  <2> QED  BY <1>13, <2>2, <2>3, AppendNames DEF ServerAnswers
<1>14. CASE ServerPushes
  <2>1. [type |-> "Text"] \in Message  BY DEF Message
  <2> QED  BY <1>14, <2>1, AppendNames DEF ServerPushes
<1>15. CASE ServerCloses
  BY <1>2, <1>15 DEF ServerCloses
<1>16. CASE UNCHANGED vars
  BY <1>1, <1>16 DEF vars, Same
<1> QED
  BY <1>3, <1>4, <1>5, <1>6, <1>7, <1>8, <1>9, <1>10, <1>11, <1>12, <1>13, <1>14, <1>15,
     <1>16
  DEF Next, TakeAction

(* The invariant holds at first.                                           *)
LEMMA IInvInit == Init => IInv
<1> SUFFICES ASSUME Init PROVE IInv  OBVIOUS
<1>1. TypeOK  BY TypeInit
<1>2. DisplayInSync /\ Phases /\ StatusFollows /\ NameFollows
  BY DEF Init, DisplayInSync, Phases, Over, StatusFollows, NameFollows
<1> QED  BY <1>1, <1>2 DEF IInv

(* The invariant is preserved.                                             *)
LEMMA IInvStep == IInv /\ [Next]_vars => IInv'
BY TypeStep, PhasesStep, DisplayStep, StatusStep, NameStep DEF IInv

(* The invariant holds throughout.                                         *)
LEMMA IInvAlways == Spec => []IInv
BY IInvInit, IInvStep, PTL DEF Spec

(* The client's variables are well typed; a socket that is not there holds *)
(* nothing; the shutdown signal is sent for /quit only.                    *)
THEOREM ClientTypeCorrect == Spec => []TypeOK
<1>1. IInv => TypeOK  BY DEF IInv
<1> QED  BY <1>1, IInvAlways, PTL

(* No update of the screen is lost (updated() after every branch).         *)
THEOREM DisplayAlwaysInSync == Spec => []DisplayInSync
<1>1. IInv => DisplayInSync  BY DEF IInv
<1> QED  BY <1>1, IInvAlways, PTL

(* In its selects the state task's status says whether it has a            *)
(* connection, and after /quit it has none.                                *)
THEOREM StatusAlwaysAgrees == Spec => []StatusAgrees
<1>1. IInv => StatusAgrees
  BY DEF IInv, StatusFollows, StatusAgrees, TypeOK
<1> QED  BY <1>1, IInvAlways, PTL

(* Once the answers in the socket are read, the client's name is the one   *)
(* the server has for it.                                                  *)
THEOREM NameAlwaysAsTold == Spec => []NameAsTold
<1>1. IInv => NameAsTold
  BY DEF IInv, NameFollows, NameAsTold, NamesToCome
<1> QED  BY <1>1, IInvAlways, PTL
=============================================================================
