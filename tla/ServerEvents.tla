---------------------------- MODULE ServerEvents ----------------------------
(***************************************************************************)
(* The state of chatserver and what handle_event does to it.               *)
(*                                                                         *)
(* One task owns the Server struct and serves one ServerEvent at a time,   *)
(* so each handler below is atomic: the two maps of user names, the        *)
(* sessions, the rooms and their broadcast channels change in one step,    *)
(* together with the answer on the oneshot channel and the messages put    *)
(* into another session's channel.                                         *)
(*                                                                         *)
(* A room message is known by its number, its position in the room's       *)
(* broadcast channel; the text of messages, of errors and of listings is   *)
(* left out.                                                               *)
(***************************************************************************)
EXTENDS Naturals, Sequences

CONSTANTS
  MaxClients,   \* bound: connections accepted in one behaviour
  Names,        \* user names a client may ask for
  NoName,       \* the empty string, the name of a session not yet registered
  Rooms,        \* room names a client may mention
  MainRoom,     \* the room the server starts with
  Capacity      \* messages a room's broadcast channel keeps for its receivers

ASSUME ServerAssumption ==
  /\ MaxClients \in Nat \ {0}
  /\ NoName \notin Names
  /\ MainRoom \in Rooms
  /\ Capacity \in Nat \ {0}

Ids == 1 .. MaxClients
NoId == 0
NoTask == 0

VARIABLES
  server,           \* the main task: see ServerState
  sessions,         \* the keys of Server.sessions
  username,         \* Session.username of each session
  username_to_id,   \* Server.username_to_id, NoId where there is no entry
  id_to_username,   \* Server.id_to_username, NoName where there is no entry
  room_manager,     \* the keys of RoomManager.rooms
  rooms,            \* the keys of each Session.rooms
  tail,             \* messages sent so far on each room's broadcast channel
  task,             \* next message each room task will receive, NoTask if ended
  aborting,         \* room tasks aborted in the middle of a poll
  rx,               \* the server's channel of (ServerEvent, reply_tx)
  reply,            \* the oneshot channel each connection is waiting on
  inbox,            \* the channel behind each session's to_session_tx
  conn              \* the handle_connection task of each connection

nameVars == <<username, username_to_id, id_to_username>>
roomVars == <<room_manager, rooms, tail, task, aborting>>

----------------------------------------------------------------------------
(* Requests, the answers to them and the messages pushed to a session.     *)

NameRequest == [type : {"Register", "ChangeName", "PrivMsg"}, arg : Names]
RoomRequest == [type : {"Join", "Leave", "Create", "SendTo"}, arg : Rooms]
ListRequest == [type : {"List"}, arg : {"users", "rooms", "allrooms", "other"}]
Request == NameRequest \cup RoomRequest \cup ListRequest
RequestType == {"Register", "ChangeName", "PrivMsg", "Join", "Leave",
                "Create", "SendTo", "List"}

DropSessionEvent == [type |-> "DropSession"]

(* An entry of the server's channel; id also names the owner of reply_tx.  *)
Event == [id : Ids, request : Request \cup {DropSessionEvent}]

NoReply == [type |-> "none"]
Dropped == [type |-> "dropped"]   \* reply_tx was dropped without an answer
Failed(type) == [type |-> "Failed", arg |-> type]
Answered(type, arg) == [type |-> type, arg |-> arg]

Reply ==
  [type : {"Registered", "ChangedName", "OutgoingMsg"}, arg : Names]
    \cup [type : {"Joined", "LeftRoom", "CreatedRoom", "MessagedRoom"}, arg : Rooms]
    \cup [type : {"Listing"}, arg : {"users", "rooms", "allrooms"}]
    \cup [type : {"Failed"}, arg : RequestType]
    \cup {NoReply, Dropped}

RoomMessage(room, num) == [type |-> "RoomMessage", room |-> room, num |-> num]
IncomingMsg(from) == [type |-> "IncomingMsg", from |-> from]

Message == [type : {"RoomMessage"}, room : Rooms, num : Nat]
             \cup [type : {"IncomingMsg"}, from : Names]

ServerState ==
  {"running",     \* in the loop of Server::start
   "closing",     \* in close_server, after Ctrl-C
   "stopped",     \* returned from close_server
   "panicked",    \* close_server met a connection task that panicked
   "crashed"}     \* handle_event panicked

ConnState == {"none", "handshake", "select", "waiting", "done", "panicked"}

(* The tasks that still own the receiving end of their session's channel.  *)
Open == {"handshake", "select", "waiting"}

----------------------------------------------------------------------------
Answer(id, m) == reply' = [reply EXCEPT ![id] = m]

(* Mistake: a message for a busy connection is lost.                       *)
PushIfIdle(id, m) ==
  inbox' = IF conn[id] = "select" THEN [inbox EXCEPT ![id] = Append(@, m)]
                                  ELSE inbox

(* Sending on to_session_tx fails, unnoticed, once the receiver is gone.   *)
Push(id, m) ==
  inbox' = IF conn[id] \in Open THEN [inbox EXCEPT ![id] = Append(@, m)]
                                ELSE inbox

(* Indexing a HashMap with a missing key panics. The event loop runs in    *)
(* main, so the panic ends the process.                                    *)
Panic == server' = "crashed" /\ UNCHANGED reply

----------------------------------------------------------------------------
(* User names.                                                             *)

BindName(id, name) ==
  /\ username' = [username EXCEPT ![id] = name]
  /\ username_to_id' = [username_to_id EXCEPT ![name] = id]
  /\ id_to_username' = [id_to_username EXCEPT ![id] = name]

Register(id, name) ==
  /\ \/ /\ username_to_id[name] # NoId
        /\ Answer(id, Failed("Register"))
        /\ UNCHANGED nameVars
     \/ /\ username_to_id[name] = NoId
        /\ id \in sessions
        /\ BindName(id, name)
        /\ Answer(id, Answered("Registered", name))
     \/ /\ username_to_id[name] = NoId
        /\ id \notin sessions
        /\ Answer(id, Dropped)
        /\ UNCHANGED nameVars
  /\ UNCHANGED <<server, sessions, inbox, roomVars>>

(* Mistake: the old name stays taken.                                      *)
RebindNameKeepingOld(id, name) == BindName(id, name)

RebindName(id, name) ==
  /\ username' = [username EXCEPT ![id] = name]
  /\ username_to_id' = [username_to_id EXCEPT ![id_to_username[id]] = NoId,
                                              ![name] = id]
  /\ id_to_username' = [id_to_username EXCEPT ![id] = name]

(* Mistake: the answer names the old and the new name in the wrong order.  *)
ChangeNameAnswersOld(id, name) ==
  /\ username_to_id[name] = NoId /\ id \in sessions /\ id_to_username[id] # NoName
  /\ RebindName(id, name)
  /\ Answer(id, Answered("ChangedName", id_to_username[id]))
  /\ UNCHANGED <<server, sessions, inbox, roomVars>>

(* A session that never registered has no entry in id_to_username.         *)
ChangeName(id, name) ==
  /\ \/ /\ username_to_id[name] # NoId
        /\ Answer(id, Failed("ChangeName"))
        /\ UNCHANGED <<server, nameVars>>
     \/ /\ username_to_id[name] = NoId
        /\ id \in sessions
        /\ id_to_username[id] # NoName
        /\ RebindName(id, name)
        /\ Answer(id, Answered("ChangedName", name))
        /\ UNCHANGED server
     \/ /\ username_to_id[name] = NoId
        /\ id \in sessions
        /\ id_to_username[id] = NoName
        /\ Panic
        /\ UNCHANGED nameVars
     \/ /\ username_to_id[name] = NoId
        /\ id \notin sessions
        /\ Answer(id, Dropped)
        /\ UNCHANGED <<server, nameVars>>
  /\ UNCHANGED <<sessions, inbox, roomVars>>

(* Mistake: an unknown user is not reported.                               *)
PrivMsgSilent(id, name) ==
  /\ username_to_id[name] = NoId
  /\ Answer(id, Dropped)
  /\ UNCHANGED <<server, sessions, inbox, nameVars, roomVars>>

PrivMsg(id, name) ==
  /\ LET receiver == username_to_id[name] IN
     \/ /\ receiver = NoId
        /\ Answer(id, Failed("PrivMsg"))
        /\ UNCHANGED <<server, inbox>>
     \/ /\ receiver # NoId
        /\ id_to_username[id] = NoName
        /\ Panic
        /\ UNCHANGED inbox
     \/ /\ receiver # NoId
        /\ id_to_username[id] # NoName
        /\ receiver \in sessions
        /\ Push(receiver, IncomingMsg(id_to_username[id]))
        /\ Answer(id, Answered("OutgoingMsg", name))
        /\ UNCHANGED server
     \/ /\ receiver # NoId
        /\ id_to_username[id] # NoName
        /\ receiver \notin sessions
        /\ Answer(id, Failed("PrivMsg"))
        /\ UNCHANGED <<server, inbox>>
  /\ UNCHANGED <<sessions, nameVars, roomVars>>

----------------------------------------------------------------------------
(* Listings change nothing; only the one of a session's own rooms needs    *)
(* the session.                                                            *)
List(id, opt) ==
  /\ Answer(id, IF opt = "other" THEN Failed("List")
                ELSE IF opt = "rooms" /\ id \notin sessions THEN Dropped
                ELSE Answered("Listing", opt))
  /\ UNCHANGED <<server, sessions, inbox, nameVars, roomVars>>

----------------------------------------------------------------------------
(* Rooms.                                                                  *)

CreateRoom(id, room) ==
  /\ Answer(id, IF room \in room_manager THEN Failed("Create")
                ELSE Answered("CreatedRoom", room))
  /\ room_manager' = room_manager \cup {room}
  /\ UNCHANGED <<server, sessions, inbox, nameVars, rooms, tail, task, aborting>>

(* Mistake: the receiver starts one message late.                          *)
SubscribeLate(id, room) ==
  /\ task' = [task EXCEPT ![id][room] = tail[room] + 2]
  /\ rooms' = [rooms EXCEPT ![id] = @ \cup {room}]

(* A new receiver starts at the channel's tail.                            *)
Subscribe(id, room) ==
  /\ task' = [task EXCEPT ![id][room] = tail[room] + 1]
  /\ rooms' = [rooms EXCEPT ![id] = @ \cup {room}]

JoinRoom(id, room) ==
  /\ \/ /\ id \notin sessions
        /\ Answer(id, Dropped)
        /\ UNCHANGED <<rooms, task>>
     \/ /\ id \in sessions
        /\ room \in rooms[id] \/ room \notin room_manager
        /\ Answer(id, Failed("Join"))
        /\ UNCHANGED <<rooms, task>>
     \/ /\ id \in sessions
        /\ room \notin rooms[id]
        /\ room \in room_manager
        /\ Subscribe(id, room)
        /\ Answer(id, Answered("Joined", room))
  /\ UNCHANGED <<server, sessions, inbox, nameVars, room_manager, tail, aborting>>

(* Mistake: the task is aborted, the session stays in the room.            *)
UnsubscribeTaskOnly(id, room) ==
  /\ task' = [task EXCEPT ![id][room] = NoTask]
  /\ UNCHANGED <<rooms, aborting>>

(* abort() only asks: a task in the middle of a poll keeps forwarding      *)
(* until the poll ends.                                                    *)
Unsubscribe(id, room) ==
  /\ aborting' =
       IF task[id][room] = NoTask THEN aborting
       ELSE aborting \cup {[id |-> id, room |-> room, next |-> task[id][room]]}
  /\ task' = [task EXCEPT ![id][room] = NoTask]
  /\ rooms' = [rooms EXCEPT ![id] = @ \ {room}]

LeaveRoom(id, room) ==
  /\ \/ /\ id \notin sessions
        /\ Answer(id, Dropped)
        /\ UNCHANGED <<rooms, task, aborting>>
     \/ /\ id \in sessions
        /\ room \notin rooms[id]
        /\ Answer(id, Failed("Leave"))
        /\ UNCHANGED <<rooms, task, aborting>>
     \/ /\ id \in sessions
        /\ room \in rooms[id]
        /\ Unsubscribe(id, room)
        /\ Answer(id, Answered("LeftRoom", room))
  /\ UNCHANGED <<server, sessions, inbox, nameVars, room_manager, tail>>

(* broadcast::Sender::send keeps nothing when the channel has no receiver; *)
(* send_room_message ignores that error.                                   *)
HasReceiver(room) ==
  \/ \E id \in Ids : task[id][room] # NoTask
  \/ \E a \in aborting : a.room = room

Broadcast(room) ==
  tail' = [tail EXCEPT ![room] = IF HasReceiver(room) THEN @ + 1 ELSE @]

SendTo(id, room) ==
  /\ \/ /\ id \notin sessions
        /\ Answer(id, Dropped)
        /\ UNCHANGED tail
     \/ /\ id \in sessions
        /\ room \notin rooms[id]
        /\ Answer(id, Failed("SendTo"))
        /\ UNCHANGED tail
     \/ /\ id \in sessions
        /\ room \in rooms[id]
        /\ Broadcast(room)
        /\ Answer(id, Answered("MessagedRoom", room))
  /\ UNCHANGED <<server, sessions, inbox, nameVars, room_manager, rooms, task,
                 aborting>>

----------------------------------------------------------------------------
(* Mistake: the session goes, its name stays.                              *)
DropSessionKeepsName(id) ==
  /\ sessions' = sessions \ {id}
  /\ rooms' = [rooms EXCEPT ![id] = {}]
  /\ task' = [task EXCEPT ![id] = [r \in Rooms |-> NoTask]]
  /\ aborting' = {a \in aborting : a.id # id}
  /\ UNCHANGED <<server, reply, inbox, room_manager, tail, nameVars>>

(* Dropping a Session drops its JoinSet, which aborts its room tasks; what *)
(* one of them still sends goes to a channel whose receiver is gone.       *)
DropSession(id) ==
  /\ username_to_id' = IF id_to_username[id] = NoName THEN username_to_id
                       ELSE [username_to_id EXCEPT ![id_to_username[id]] = NoId]
  /\ id_to_username' = [id_to_username EXCEPT ![id] = NoName]
  /\ username' = [username EXCEPT ![id] = NoName]
  /\ sessions' = sessions \ {id}
  /\ rooms' = [rooms EXCEPT ![id] = {}]
  /\ task' = [task EXCEPT ![id] = [r \in Rooms |-> NoTask]]
  /\ aborting' = {a \in aborting : a.id # id}
  /\ UNCHANGED <<server, reply, inbox, room_manager, tail>>
=============================================================================
