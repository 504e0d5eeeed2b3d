----------------------------- MODULE ChatClient -----------------------------
(***************************************************************************)
(* The two tasks of chatclient. The state task owns the socket and the     *)
(* ClientState and selects over the server's messages, the user's actions  *)
(* and the shutdown signal. The TUI task turns command lines into actions  *)
(* and shows a copy of the ClientState, which it takes again whenever the  *)
(* state task says that it has changed. The server is the environment.     *)
(*                                                                         *)
(* What is shown is known by its amount: notifications counts the times a  *)
(* handler pushed some. The title, the id given by the server, which       *)
(* nothing reads, and texts are left out.                                  *)
(***************************************************************************)
EXTENDS Naturals, Sequences

CONSTANTS
  Names,        \* user names
  NoName,       \* the empty string
  MaxActions,   \* bound: commands the user enters
  MaxPushed     \* bound: messages the server sends unasked

ASSUME ClientAssumption ==
  /\ NoName \notin Names
  /\ MaxActions \in Nat
  /\ MaxPushed \in Nat

VARIABLES
  state,              \* the ClientState behind the mutex
  state_task,         \* where the state task is, see StateTask
  exit,               \* its flag, set by /quit
  connection_handle,  \* does it have a connection, which no select sees
                      \* before it is registered
  shutdown,           \* has Terminate::Exit been sent
  action_rx,          \* the channel of actions
  state_rx,           \* updates that the TUI task has not received
  tui_task,           \* where the TUI task is
  shown,              \* the copy of the ClientState that is on the screen
  to_server,          \* requests in the socket
  from_server,        \* messages in the socket
  stream,             \* the server's end of the socket
  server_name,        \* the name the server has for this connection
  entered,            \* how many commands the user entered
  pushed              \* how many messages the server sent unasked

taskVars == <<state, state_task, exit, connection_handle, shutdown>>
tuiVars == <<tui_task, shown, entered>>
socketVars == <<to_server, from_server, stream, server_name>>
vars == <<taskVars, action_rx, state_rx, tuiVars, socketVars, pushed>>

StateTask ==
  {"updated",     \* about to tell the TUI of a change
   "top",         \* at the top of the loop
   "select",      \* waiting in one of the two selects
   "connecting",  \* in registering_on_server, waiting for a connection
   "registering", \* in registering_on_server, sending the registration
   "ended",
   "panicked"}
TuiTask == {"setup", "select", "ended"}

ClientState ==
  [connection_status : {"Unitiliazed", "Established"}, username : Names \cup {NoName},
   notifications : Nat]

(* Ask stands for /sendto, /join, /leave, /list and /create, which only    *)
(* send a request; None is what a closed channel of actions yields.        *)
Action ==
  [type : {"Help", "Connect", "Ask", "Disconnect", "Quit", "Invalid"}]
    \cup [type : {"SetName", "PrivMsg"}, name : Names]
NoAction == [type |-> "None"]

Request ==
  [type : {"Register", "ChangeName", "PrivMsg"}, name : Names] \cup [type : {"Ask"}]

(* Text stands for every message that is only shown.                       *)
Message ==
  [type : {"Registered", "ChangedName"}, name : Names]
    \cup [type : {"Failed"}, cmd : {"register", "other"}]
    \cup [type : {"Text", "MessagedRoom"}]

----------------------------------------------------------------------------
(* ClientState.                                                            *)

Notified(s) == [s EXCEPT !.notifications = @ + 1]
Terminated(s) == [s EXCEPT !.connection_status = "Unitiliazed"]

Refused(m) == m.type = "Failed" /\ m.cmd = "register"

(* Mistake: a refused registration leaves the status as it is.             *)
HandleMessageKeepingStatus(s, m) ==
  IF m.type \in {"Registered", "ChangedName"} THEN [Notified(s) EXCEPT !.username = m.name]
  ELSE IF m.type = "MessagedRoom" THEN s
  ELSE Notified(s)

HandleMessage(s, m) ==
  CASE Refused(m) -> Terminated(Notified(s))
    [] m.type \in {"Registered", "ChangedName"} -> [Notified(s) EXCEPT !.username = m.name]
    [] m.type = "MessagedRoom" -> s
    [] OTHER -> Notified(s)

----------------------------------------------------------------------------
(* The socket.                                                             *)

(* What is sent to a server that has closed is lost, unnoticed.            *)
Send(request) ==
  /\ to_server' = IF stream = "open" THEN Append(to_server, request) ELSE to_server
  /\ UNCHANGED <<from_server, stream, server_name>>

DropConnection ==
  /\ connection_handle' = FALSE
  /\ to_server' = <<>>
  /\ from_server' = <<>>
  /\ stream' = "open"
  /\ server_name' = NoName

----------------------------------------------------------------------------
(* The state task. A branch of a select changes the state under its lock   *)
(* and then calls updated().                                               *)

Init ==
  /\ state = [connection_status |-> "Unitiliazed", username |-> NoName,
              notifications |-> 1]
  /\ state_task = "updated"
  /\ exit = FALSE
  /\ connection_handle = FALSE
  /\ shutdown = FALSE
  /\ action_rx = <<>>
  /\ state_rx = 0
  /\ tui_task = "setup"
  /\ shown = state
  /\ to_server = <<>>
  /\ from_server = <<>>
  /\ stream = "open"
  /\ server_name = NoName
  /\ entered = 0
  /\ pushed = 0

(* state_tx.send(()).unwrap(): the channel is closed once the TUI task has *)
(* ended.                                                                  *)
Updated ==
  /\ state_task = "updated"
  /\ \/ /\ tui_task # "ended"
        /\ state_rx' = state_rx + 1
        /\ state_task' = "top"
        /\ UNCHANGED <<connection_handle, socketVars>>
     \/ /\ tui_task = "ended"
        /\ state_task' = "panicked"
        /\ DropConnection
        /\ UNCHANGED state_rx
  /\ UNCHANGED <<state, exit, shutdown, action_rx, tuiVars, pushed>>

(* Mistake: the flag is looked at only while there is a connection.        *)
TopConnected ==
  /\ state_task = "top"
  /\ state_task' = "select"
  /\ \/ /\ exit /\ connection_handle
        /\ shutdown' = TRUE
        /\ DropConnection
     \/ /\ ~(exit /\ connection_handle)
        /\ UNCHANGED <<shutdown, connection_handle, socketVars>>
  /\ UNCHANGED <<state, exit, action_rx, state_rx, tuiVars, pushed>>

Top ==
  /\ state_task = "top"
  /\ state_task' = "select"
  /\ \/ /\ exit
        /\ shutdown' = TRUE
        /\ DropConnection
     \/ /\ ~exit
        /\ UNCHANGED <<shutdown, connection_handle, socketVars>>
  /\ UNCHANGED <<state, exit, action_rx, state_rx, tuiVars, pushed>>

Tick ==
  /\ state_task = "select"
  /\ state_task' = "top"
  /\ UNCHANGED <<state, exit, connection_handle, shutdown, action_rx, state_rx, tuiVars,
                 socketVars, pushed>>

ShutdownBranch ==
  /\ state_task = "select"
  /\ shutdown
  /\ state_task' = "ended"
  /\ UNCHANGED <<state, exit, connection_handle, shutdown, action_rx, state_rx, tuiVars,
                 socketVars, pushed>>

branchFrame == <<shutdown, state_rx, tuiVars, pushed>>

(* Mistake: the TUI is not told of a message.                              *)
TakeMessageUntold ==
  /\ state_task = "select" /\ connection_handle /\ from_server # <<>>
  /\ state' = HandleMessage(state, Head(from_server))
  /\ state_task' = "top"
  /\ \/ /\ Refused(Head(from_server))
        /\ DropConnection
     \/ /\ ~Refused(Head(from_server))
        /\ from_server' = Tail(from_server)
        /\ UNCHANGED <<connection_handle, to_server, stream, server_name>>
  /\ UNCHANGED <<branchFrame, exit, action_rx>>

TakeMessage ==
  /\ state_task = "select"
  /\ connection_handle
  /\ from_server # <<>>
  /\ state' = HandleMessage(state, Head(from_server))
  /\ state_task' = "updated"
  /\ \/ /\ Refused(Head(from_server))
        /\ DropConnection
     \/ /\ ~Refused(Head(from_server))
        /\ from_server' = Tail(from_server)
        /\ UNCHANGED <<connection_handle, to_server, stream, server_name>>
  /\ UNCHANGED <<branchFrame, exit, action_rx>>

(* A socket closed without a closing handshake yields an error, then None. *)
TakeReset ==
  /\ state_task = "select"
  /\ connection_handle
  /\ from_server = <<>>
  /\ stream = "reset"
  /\ stream' = "end"
  /\ state_task' = "updated"
  /\ UNCHANGED <<branchFrame, state, exit, connection_handle, action_rx, to_server,
                 from_server, server_name>>

(* Mistake: a client that lost its server leaves its loop.                 *)
TakeEndBreaking ==
  /\ state_task = "select" /\ connection_handle /\ from_server = <<>> /\ stream = "end"
  /\ state' = Terminated(Notified(state))
  /\ state_task' = "ended"
  /\ DropConnection
  /\ UNCHANGED <<branchFrame, exit, action_rx>>

TakeEnd ==
  /\ state_task = "select"
  /\ connection_handle
  /\ from_server = <<>>
  /\ stream = "end"
  /\ state' = Terminated(Notified(state))
  /\ state_task' = "updated"
  /\ DropConnection
  /\ UNCHANGED <<branchFrame, exit, action_rx>>

(* Once the TUI task has ended the channel of actions yields None.         *)
Receive(action) ==
  /\ state_task = "select"
  /\ \/ /\ action_rx # <<>>
        /\ action = Head(action_rx)
        /\ action_rx' = Tail(action_rx)
     \/ /\ action_rx = <<>>
        /\ tui_task = "ended"
        /\ action = NoAction
        /\ UNCHANGED action_rx

Notify == state' = Notified(state)

(* /quit is the same branch in both selects.                               *)
Quit ==
  /\ Receive([type |-> "Quit"])
  /\ exit' = TRUE
  /\ state_task' = "updated"
  /\ UNCHANGED <<branchFrame, state, connection_handle, socketVars>>

(* Mistake: the new name is taken over before the server agrees.           *)
ChangeNameAtOnce(name) ==
  /\ state' = [Notified(state) EXCEPT !.username = name]
  /\ Send([type |-> "ChangeName", name |-> name])
  /\ UNCHANGED connection_handle

(* Mistake: a rename is sent as another registration.                      *)
ChangeNameByRegister(name) ==
  /\ Notify
  /\ Send([type |-> "Register", name |-> name])
  /\ UNCHANGED connection_handle

ChangeName(name) ==
  /\ Notify
  /\ Send([type |-> "ChangeName", name |-> name])
  /\ UNCHANGED connection_handle

PrivMsg(user) ==
  /\ \/ user = state.username /\ Notify /\ UNCHANGED socketVars
     \/ /\ user # state.username
        /\ Send([type |-> "PrivMsg", name |-> user])
        /\ UNCHANGED state
  /\ UNCHANGED connection_handle

Ask == Send([type |-> "Ask"]) /\ UNCHANGED <<state, connection_handle>>

Disconnect == state' = Terminated(Notified(state)) /\ DropConnection

ConnectedAction ==
  /\ connection_handle
  /\ \E action \in (Action \cup {NoAction}) \ [type : {"Quit"}] :
       /\ Receive(action)
       /\ \/ action.type = "SetName" /\ ChangeName(action.name)
          \/ action.type = "PrivMsg" /\ PrivMsg(action.name)
          \/ action.type = "Ask" /\ Ask
          \/ action.type = "Disconnect" /\ Disconnect
          \/ /\ action.type \in {"Help", "Invalid"}
             /\ Notify
             /\ UNCHANGED <<connection_handle, socketVars>>
          \/ /\ action.type \in {"Connect", "None"}
             /\ UNCHANGED <<state, connection_handle, socketVars>>
  /\ state_task' = "updated"
  /\ UNCHANGED <<branchFrame, exit>>

(* Help, an invalid line, a connect without a name, and everything that    *)
(* needs a connection.                                                     *)
OnlyNotifies(action) ==
  action.type = "Connect" => state.username = NoName

DisconnectedAction ==
  /\ ~connection_handle
  /\ \E action \in (Action \cup {NoAction}) \ [type : {"Quit"}] :
       /\ Receive(action)
       /\ \/ /\ action.type = "SetName"
             /\ state' = [Notified(state) EXCEPT !.username = action.name]
             /\ state_task' = "updated"
          \/ /\ action.type # "SetName"
             /\ OnlyNotifies(action)
             /\ Notify
             /\ state_task' = "updated"
          \/ /\ ~OnlyNotifies(action)
             /\ state_task' = "connecting"
             /\ UNCHANGED state
  /\ UNCHANGED <<branchFrame, exit, connection_handle, socketVars>>

(* Mistake: the new connection is not kept.                                *)
ConnectedUnkept ==
  /\ state_task = "connecting"
  /\ state' = [Notified(state) EXCEPT !.connection_status = "Established"]
  /\ state_task' = "registering"
  /\ UNCHANGED <<branchFrame, exit, connection_handle, action_rx, socketVars>>

(* registering_on_server: connected, or not. The status is changed under   *)
(* the lock, which is released before the registration is sent.            *)
Connected ==
  /\ state_task = "connecting"
  /\ state' = [Notified(state) EXCEPT !.connection_status = "Established"]
  /\ connection_handle' = TRUE
  /\ state_task' = "registering"
  /\ UNCHANGED <<branchFrame, exit, action_rx, socketVars>>

Registered ==
  /\ state_task = "registering"
  /\ Send([type |-> "Register", name |-> state.username])
  /\ state_task' = "updated"
  /\ UNCHANGED <<branchFrame, state, exit, connection_handle, action_rx>>

NotConnected ==
  /\ state_task = "connecting"
  /\ Notify
  /\ state_task' = "updated"
  /\ UNCHANGED <<branchFrame, exit, connection_handle, action_rx, socketVars>>

TakeAction == Quit \/ ConnectedAction \/ DisconnectedAction

----------------------------------------------------------------------------
(* The TUI task.                                                           *)

TuiSetup ==
  /\ tui_task = "setup"
  /\ tui_task' = "select"
  /\ shown' = state
  /\ UNCHANGED <<taskVars, action_rx, state_rx, entered, socketVars, pushed>>

Submit(action) ==
  /\ tui_task = "select"
  /\ entered < MaxActions
  /\ entered' = entered + 1
  /\ action_rx' = Append(action_rx, action)
  /\ UNCHANGED <<taskVars, state_rx, tui_task, shown, socketVars, pushed>>

Update ==
  /\ tui_task = "select"
  /\ state_rx > 0
  /\ state_rx' = state_rx - 1
  /\ shown' = state
  /\ UNCHANGED <<taskVars, action_rx, tui_task, entered, socketVars, pushed>>

(* The signal, or the end of the state task, which owns its sender. The    *)
(* end of the TUI task closes both of its channels.                        *)
TuiShutdown ==
  /\ tui_task = "select"
  /\ shutdown \/ state_task \in {"ended", "panicked"}
  /\ tui_task' = "ended"
  /\ state_rx' = 0
  /\ UNCHANGED <<taskVars, action_rx, shown, entered, socketVars, pushed>>

----------------------------------------------------------------------------
(* The server, as a connection task of ChatServer appears to its peer: it  *)
(* answers requests one after the other, sends messages in between, and    *)
(* may go at any time. A session without a name is not renamed.            *)

Answers(request) ==
  CASE request.type = "Register" ->
         {[type |-> "Registered", name |-> request.name],
          [type |-> "Failed", cmd |-> "register"]}
    [] request.type = "ChangeName" ->
         {[type |-> "Failed", cmd |-> "other"]} \cup
         (IF server_name = NoName THEN {}
          ELSE {[type |-> "ChangedName", name |-> request.name]})
    [] OTHER -> {[type |-> "Failed", cmd |-> "other"], [type |-> "Text"],
                 [type |-> "MessagedRoom"]}

ServerAnswers ==
  /\ stream = "open"
  /\ to_server # <<>>
  /\ \E m \in Answers(Head(to_server)) :
       /\ from_server' = Append(from_server, m)
       /\ server_name' = IF m.type \in {"Registered", "ChangedName"} THEN m.name
                         ELSE server_name
  /\ to_server' = Tail(to_server)
  /\ UNCHANGED <<taskVars, action_rx, state_rx, tuiVars, stream, pushed>>

ServerPushes ==
  /\ connection_handle
  /\ stream = "open"
  /\ pushed < MaxPushed
  /\ pushed' = pushed + 1
  /\ from_server' = Append(from_server, [type |-> "Text"])
  /\ UNCHANGED <<taskVars, action_rx, state_rx, tuiVars, to_server, stream, server_name>>

(* The session is gone, and so may be the last messages to its peer.       *)
ServerCloses ==
  /\ connection_handle
  /\ stream = "open"
  /\ stream' = "reset"
  /\ to_server' = <<>>
  /\ \E n \in 0 .. Len(from_server) : from_server' = SubSeq(from_server, 1, n)
  /\ server_name' = NoName
  /\ UNCHANGED <<taskVars, action_rx, state_rx, tuiVars, pushed>>

----------------------------------------------------------------------------
Next ==
  \/ Updated \/ Top \/ Tick \/ ShutdownBranch
  \/ TakeMessage \/ TakeReset \/ TakeEnd \/ TakeAction
  \/ Connected \/ NotConnected \/ Registered
  \/ TuiSetup \/ Update \/ TuiShutdown \/ \E action \in Action : Submit(action)
  \/ ServerAnswers \/ ServerPushes \/ ServerCloses

(* As in the server, a select starts at a random branch: one that is ready *)
(* again and again is taken. Users, servers and networks owe nothing, but  *)
(* the first message that is sent fits the buffer of its new socket.       *)
Fairness ==
  /\ WF_vars(Updated)
  /\ WF_vars(Top)
  /\ SF_vars(ShutdownBranch)
  /\ SF_vars(TakeMessage \/ TakeReset \/ TakeEnd)
  /\ SF_vars(TakeAction)
  /\ WF_vars(Registered)
  /\ WF_vars(TuiSetup)
  /\ WF_vars(Update)
  /\ WF_vars(TuiShutdown)

Spec == Init /\ [][Next]_vars
FairSpec == Spec /\ Fairness
----------------------------------------------------------------------------
(* Type correctness; a socket that is not there holds nothing, and the     *)
(* shutdown signal is sent for /quit only.                                 *)
TypeOK ==
  /\ state \in ClientState
  /\ state_task \in StateTask
  /\ exit \in BOOLEAN
  /\ connection_handle \in BOOLEAN
  /\ shutdown \in BOOLEAN
  /\ action_rx \in Seq(Action)
  /\ state_rx \in Nat
  /\ tui_task \in TuiTask
  /\ shown \in ClientState
  /\ to_server \in Seq(Request)
  /\ from_server \in Seq(Message)
  /\ stream \in {"open", "reset", "end"}
  /\ server_name \in Names \cup {NoName}
  /\ entered \in 0 .. MaxActions
  /\ pushed \in 0 .. MaxPushed
  /\ ~connection_handle =>
       to_server = <<>> /\ from_server = <<>> /\ stream = "open" /\ server_name = NoName
  /\ shutdown => exit

(* No update is lost: unless the TUI task has an update to receive, or the *)
(* state task one to send, the screen shows the state as it is.            *)
DisplayInSync ==
  (tui_task = "select" /\ state_rx = 0 /\ state_task \in {"top", "select", "connecting"})
    => shown = state

(* Whenever the state task waits in a select, its status says whether it   *)
(* has a connection; after /quit, a reconnect typed behind it included, it *)
(* has none.                                                               *)
StatusAgrees ==
  state_task = "select" =>
    IF exit THEN ~connection_handle
    ELSE connection_handle <=> state.connection_status = "Established"

(* Once the answers in the socket are read, the client's name is the one   *)
(* the server has for it, whatever renames were asked for and refused.     *)
NameAsTold ==
  (connection_handle /\ server_name # NoName
     /\ \A i \in DOMAIN from_server : from_server[i].type \notin {"Registered", "ChangedName"})
    => state.username = server_name

Over == state_task \in {"ended", "panicked"}

(* /quit ends both tasks; only an attempt to connect that was typed behind *)
(* it, and hangs, can keep the state task.                                 *)
QuitEnds == exit ~> (tui_task = "ended" /\ (Over \/ state_task = "connecting"))

(* However busy the server is, and after it has gone, an action is taken,  *)
(* unless the state task hangs connecting or the user quits.               *)
ActionTaken == (action_rx # <<>>) ~> (action_rx = <<>> \/ state_task = "connecting" \/ exit)

(* What the server says is shown, as long as the user does not quit.       *)
AnswerShown == (from_server # <<>>) ~> (exit \/ (from_server = <<>> /\ shown = state))

(* state_handler/mod.rs:22 unwraps the result of the send: whenever the    *)
(* state task has an update the TUI task is there to receive it.           *)
UpdateHasReceiver == state_task # "panicked"
=============================================================================
